---- MODULE Spec2Model ----
(***************************************************************************)
(* Model of the cross-file search/replace engine of Sigil's FindReplace    *)
(* panel (src/src/MainUI/FindReplace.cpp).                                 *)
(*                                                                         *)
(* Strings (QString) are sequences of one-character strings.  A document   *)
(* is a sequence of one-character slots; a pattern matches single slots.   *)
(* Resources are numbered in reading order: the HTML files, then the CSS   *)
(* files, then the OPF and the NCX file.  0 is the null pointer.           *)
(***************************************************************************)
EXTENDS Integers, Sequences, FiniteSets, TLC

(* ------------------------------ bounds -------------------------------- *)
NumHTML == 3
NumCSS == 1
MaxMatches == 2

(* ----------------------------- catalog -------------------------------- *)
NoResource == 0
HTMLs == 1..NumHTML
CSSs == (NumHTML + 1)..(NumHTML + NumCSS)
OPF == NumHTML + NumCSS + 1
NCX == NumHTML + NumCSS + 2
Resources == 1..NCX

\* a tab of the main window whose content is no Searchable (an image, say)
UnsearchableTab == NCX + 1

Type(r) ==
    IF r \in HTMLs THEN "HTMLResourceType"
    ELSE IF r \in CSSs THEN "CSSResourceType"
    ELSE IF r = OPF THEN "OPFResourceType"
    ELSE IF r = NCX THEN "NCXResourceType"
    ELSE "GenericResourceType"

(* ------------------------- sequence helpers --------------------------- *)
Range(q) == {q[i] : i \in 1..Len(q)}

Contains(q, x) == x \in Range(q)

Min(a, b) == IF a <= b THEN a ELSE b

Max(a, b) == IF a >= b THEN a ELSE b

RECURSIVE SeqSum(_)
SeqSum(q) == IF q = <<>> THEN 0 ELSE Head(q) + SeqSum(Tail(q))

\* QList::removeOne: removes the first occurrence of x, if any
RemoveOne(q, x) ==
    IF ~Contains(q, x) THEN q
    ELSE LET k == CHOOSE i \in 1..Len(q) : q[i] = x /\ \A j \in 1..(i - 1) : q[j] # x
         IN  SubSeq(q, 1, k - 1) \o SubSeq(q, k + 1, Len(q))

\* QString::startsWith
StartsWith(q, p) == Len(q) >= Len(p) /\ SubSeq(q, 1, Len(p)) = p

\* QString::mid(n): the string from 0-based index n on
Mid(q, n) == SubSeq(q, n + 1, Len(q))

\* the resources of set S in reading order
RECURSIVE InOrder(_, _)
InOrder(S, r) ==
    IF r > NCX THEN <<>>
    ELSE (IF r \in S THEN <<r>> ELSE <<>>) \o InOrder(S, r + 1)

(* ------------------------- string constants --------------------------- *)
REGEX_OPTION_UCP == <<"(", "*", "U", "C", "P", ")">>
REGEX_OPTION_IGNORE_CASE == <<"(", "?", "i", ")">>
REGEX_OPTION_DOT_ALL == <<"(", "?", "s", ")">>
REGEX_OPTION_MINIMAL_MATCH == <<"(", "?", "U", ")">>

TGTS == <<"CF", "AH", "SH", "TH", "AC", "SC", "TC", "OP", "NX">>
MDS == <<"NL", "CS", "RX">>
DRS == <<"DN", "UP">>

\* the two characters of a control token
Chars(tok) ==
    CASE tok = "CF" -> <<"C", "F">> [] tok = "AH" -> <<"A", "H">>
      [] tok = "SH" -> <<"S", "H">> [] tok = "TH" -> <<"T", "H">>
      [] tok = "AC" -> <<"A", "C">> [] tok = "SC" -> <<"S", "C">>
      [] tok = "TC" -> <<"T", "C">> [] tok = "OP" -> <<"O", "P">>
      [] tok = "NX" -> <<"N", "X">> [] tok = "NL" -> <<"N", "L">>
      [] tok = "CS" -> <<"C", "S">> [] tok = "RX" -> <<"R", "X">>
      [] tok = "DN" -> <<"D", "N">> [] tok = "UP" -> <<"U", "P">>
      [] tok = "DA" -> <<"D", "A">> [] tok = "MM" -> <<"M", "M">>
      [] tok = "AT" -> <<"A", "T">> [] tok = "WR" -> <<"W", "R">>

\* QStringList::join(' ')
RECURSIVE Join(_)
Join(toks) ==
    IF toks = <<>> THEN <<>>
    ELSE IF Len(toks) = 1 THEN Chars(toks[1])
    ELSE Chars(toks[1]) \o <<" ">> \o Join(Tail(toks))

(* --------------------------- the UI getters --------------------------- *)
GetSearchMode(s) == s.cbSearchMode

GetLookWhere(s) == s.cbLookWhere

GetSearchDirection(s) == s.cbSearchDirection

GetSearchableDirection(s) ==
    IF GetSearchDirection(s) = "UP" THEN "Direction_Up" ELSE "Direction_Down"

IsMarkedText(s) == s.markedText

\* mutant: any find text is accepted
IsValidFindText_Always(s) == TRUE

IsValidFindText(s) == s.cbFind # <<>>

GetCurrentResource(s) == s.current

\* The enums of the panel as numbered values; a setting goes by the name of
\* its control token (NL literal, CS case-sensitive literal, RX regex, ...).
SearchMode == [NL |-> 0, CS |-> 1, RX |-> 2]

LookWhere ==
    [CF |-> 0, AH |-> 1, SH |-> 2, TH |-> 3, AC |-> 4, SC |-> 5, TC |-> 6,
     OP |-> 7, NX |-> 8]

SearchDirection == [DN |-> 0, UP |-> 1]

\* QStringList::at(i)
At(list, i) == list[i + 1]

GetControls(s) ==
    Join(<<At(MDS, SearchMode[GetSearchMode(s)])>>
         \o (IF s.m_RegexOptionDotAll THEN <<"DA">> ELSE <<>>)
         \o (IF s.m_RegexOptionMinimalMatch THEN <<"MM">> ELSE <<>>)
         \o (IF s.m_RegexOptionAutoTokenise THEN <<"AT">> ELSE <<>>)
         \o (IF s.m_OptionWrap THEN <<"WR">> ELSE <<>>)
         \o <<At(DRS, SearchDirection[GetSearchDirection(s)])>>
         \o <<At(TGTS, LookWhere[GetLookWhere(s)])>>)

isWhereCF(s) == GetLookWhere(s) = "CF"

isWhereHTML(s) == GetLookWhere(s) \in {"AH", "SH", "TH"}

isWhereCSS(s) == GetLookWhere(s) \in {"AC", "SC", "TC"}

isWhereOPF(s) == GetLookWhere(s) = "OP"

isWhereNCX(s) == GetLookWhere(s) = "NX"

isWhereSelected(s) == GetLookWhere(s) \in {"SH", "TH", "SC", "TC", "OP", "NX"}

\* mutant: the signature of a search is never recorded
SetPreviousSearch_Forget(s) == s

SetPreviousSearch(s) ==
    [s EXCEPT !.m_PreviousSearch = <<s.cbFind, s.cbReplace, GetControls(s)>>]

IsNewSearch(s) ==
    \/ Len(s.m_PreviousSearch) # 3
    \/ s.m_PreviousSearch[1] # s.cbFind
    \/ s.m_PreviousSearch[2] # s.cbReplace
    \/ s.m_PreviousSearch[3] # GetControls(s)

\* the message is the list of its parts
ShowMessage(s, message) ==
    [s EXCEPT !.message =
        IF s.m_LookWhereCurrentFile /\ ~isWhereCF(s)
        THEN <<message, " (Current File)">> ELSE <<message>>]

clearMessage(s) ==
    IF ~s.m_IsSearchGroupRunning THEN [s EXCEPT !.message = <<>>] ELSE s

CannotFindSearchTerm(s) == ShowMessage(s, "No matches found")

\* ghost: the log of calls the operation in progress made to its collaborators
Log(s, f, r, n) == [s EXCEPT !.calls = Append(@, [f |-> f, r |-> r, n |-> n])]

(* --------------------------- Regex Composer --------------------------- *)
\* the characters QRegularExpression's \R matches singly
NewlineChars == {"\n", "\r", "LS", "PS"}

\* text.replace(QRegularExpression("\\R"), "\n")
RECURSIVE ReplaceNewlines(_)
ReplaceNewlines(q) ==
    IF q = <<>> THEN <<>>
    ELSE IF Len(q) >= 2 /\ q[1] = "\r" /\ q[2] = "\n"
         THEN <<"\n">> \o ReplaceNewlines(SubSeq(q, 3, Len(q)))
    ELSE IF q[1] \in NewlineChars THEN <<"\n">> \o ReplaceNewlines(Tail(q))
    ELSE <<q[1]>> \o ReplaceNewlines(Tail(q))

WordChars == {"a", "b", "A", "B", "x", "i", "s", "U", "C", "P", "_"}

\* QRegularExpression::escape: a backslash before every non-word character
RECURSIVE Escape(_)
Escape(q) ==
    IF q = <<>> THEN <<>>
    ELSE (IF q[1] \in WordChars THEN <<q[1]>> ELSE <<"\\", q[1]>>) \o Escape(Tail(q))

PrependRegexOptionToSearch_Plain(option, search) == option \o search

PrependRegexOptionToSearch(option, search) ==
    IF StartsWith(search, REGEX_OPTION_UCP)
    THEN REGEX_OPTION_UCP \o option \o Mid(search, Len(REGEX_OPTION_UCP))
    ELSE option \o search

GetSearchRegex_Unescaped(s) ==
    PrependRegexOptionToSearch(REGEX_OPTION_IGNORE_CASE, ReplaceNewlines(s.cbFind))

\* the pattern handed to the Searchable: escaped in the two literal modes
GetSearchRegex(s) ==
    LET text == ReplaceNewlines(s.cbFind)
    IN  IF GetSearchMode(s) \in {"NL", "CS"}
        THEN LET search == Escape(text)
             IN  IF GetSearchMode(s) = "NL"
                 THEN PrependRegexOptionToSearch(REGEX_OPTION_IGNORE_CASE, search)
                 ELSE search
        ELSE LET s1 == IF s.m_RegexOptionDotAll
                       THEN PrependRegexOptionToSearch(REGEX_OPTION_DOT_ALL, text)
                       ELSE text
             IN  IF s.m_RegexOptionMinimalMatch
                 THEN PrependRegexOptionToSearch(REGEX_OPTION_MINIMAL_MATCH, s1)
                 ELSE s1

(* ------------------- the regex engine (collaborator) ------------------ *)
InlineOptions == {REGEX_OPTION_IGNORE_CASE, REGEX_OPTION_DOT_ALL, REGEX_OPTION_MINIMAL_MATCH}

\* the pattern without its leading (?x) directives
RECURSIVE StripInline(_)
StripInline(p) ==
    IF \E o \in InlineOptions : StartsWith(p, o) THEN StripInline(Mid(p, 4)) ELSE p

\* the pattern body: (*UCP) only counts as a directive at the very start
PatternBody(p) ==
    IF StartsWith(p, REGEX_OPTION_UCP) THEN StripInline(Mid(p, Len(REGEX_OPTION_UCP)))
    ELSE StripInline(p)

RECURSIVE HasIgnoreCase(_)
HasIgnoreCase(p) ==
    IF StartsWith(p, REGEX_OPTION_UCP) THEN HasIgnoreCase(Mid(p, Len(REGEX_OPTION_UCP)))
    ELSE IF StartsWith(p, REGEX_OPTION_IGNORE_CASE) THEN TRUE
    ELSE IF \E o \in InlineOptions : StartsWith(p, o) THEN HasIgnoreCase(Mid(p, 4))
    ELSE FALSE

Lower(c) == IF c = "A" THEN "a" ELSE IF c = "B" THEN "b" ELSE c

\* a pattern whose body is one literal character (escaped or not) matches the
\* slots holding that character; any other pattern matches no slot
PatternMatches(p, c) ==
    LET body == PatternBody(p)
        lit == IF Len(body) = 2 /\ body[1] = "\\" THEN <<body[2]>> ELSE body
    IN  /\ Len(lit) = 1
        /\ lit[1] \notin {"\\", ".", "(", ")", "*", "?"}
        /\ IF HasIgnoreCase(p) THEN Lower(lit[1]) = Lower(c) ELSE lit[1] = c

\* the slots of a document that the pattern matches
MatchSlots(txt, p) == {i \in 1..Len(txt) : PatternMatches(p, txt[i])}

(* ------------------ Resource Catalog / Host (collaborator) ------------ *)
GetAllHTMLResources(s) == InOrder(HTMLs, 1)

GetAllCSSResources(s) == InOrder(CSSs, 1)

\* the Book Browser's selection, in reading order, when it is all of one type
ValidSelectedResources(s, type) ==
    IF \A r \in s.selected : Type(r) = type THEN InOrder(s.selected, 1) ELSE <<>>

GetValidSelectedHTMLResources(s) == ValidSelectedResources(s, "HTMLResourceType")

GetValidSelectedCSSResources(s) == ValidSelectedResources(s, "CSSResourceType")

\* the open tabs of a type, in tab order
GetTabbedHTMLResources(s) == SelectSeq(s.tabs, LAMBDA r : Type(r) = "HTMLResourceType")

GetTabbedCSSResources(s) == SelectSeq(s.tabs, LAMBDA r : Type(r) = "CSSResourceType")

GetOPFResource(s) == <<OPF>>

GetNCXResource(s) == <<NCX>>

\* MainWindow::OpenResourceAndWaitUntilLoaded(resource, -1, pos): the resource
\* gets a tab (a new one at the end unless it has one), the tab becomes the
\* current one, the Book Browser selects the resource, and the cursor goes to
\* pos if pos >= 0 (a tab shown anew starts at the top)
OpenResourceAndWaitUntilLoaded(s, resource, pos) ==
    [Log(s, "OpenResource", resource, pos) EXCEPT
        !.current = resource,
        !.tabs = IF Contains(@, resource) THEN @ ELSE Append(@, resource),
        !.selected = {resource},
        !.anchor = IF pos >= 0 THEN pos
                   ELSE IF resource = s.current THEN @ ELSE 0,
        !.position = IF pos >= 0 THEN pos
                     ELSE IF resource = s.current THEN @ ELSE 0]

\* MainWindow::SelectResources
SelectResources(s, resources) == [s EXCEPT !.selected = Range(resources)]

(* ----------------- the per-document Searchable (collaborator) --------- *)
\* every tab of the model shows a text resource, which is searchable
GetSearchableContent(s) == s.current \in Resources

SelectionStart(s) == Min(s.anchor, s.position)

SelectionEnd(s) == Max(s.anchor, s.position)

\* the offset a search starts from
GetSelectionOffset(s, direction, ignore_selection_offset) ==
    IF direction = "Direction_Up"
    THEN (IF ignore_selection_offset THEN Len(s.text[s.current]) ELSE SelectionStart(s))
    ELSE (IF ignore_selection_offset THEN 0 ELSE SelectionEnd(s))

\* slot i lies between the offsets i-1 and i
SlotsInDirection(s, p, direction, offset) ==
    {i \in MatchSlots(s.text[s.current], p) :
        IF direction = "Direction_Up" THEN i <= offset ELSE i > offset}

PickSlot(S, direction) ==
    IF direction = "Direction_Up"
    THEN CHOOSE i \in S : \A j \in S : j <= i
    ELSE CHOOSE i \in S : \A j \in S : j >= i

\* Searchable::FindNext(regex, direction, misspelled, ignore_selection_offset, wrap):
\* selects the nearest match after (before) the offset, or when wrapping the
\* first (last) match of the document; ret tells whether one was selected
Candidates(near, all, wrap) == IF near # {} THEN near ELSE IF wrap THEN all ELSE {}

SelectSlot(s, i, direction) ==
    [s EXCEPT !.found = TRUE,
              !.anchor = IF direction = "Direction_Up" THEN i ELSE i - 1,
              !.position = IF direction = "Direction_Up" THEN i - 1 ELSE i]

SelectFrom(s, cand, direction) ==
    IF cand = {} THEN [s EXCEPT !.found = FALSE]
    ELSE SelectSlot(s, PickSlot(cand, direction), direction)

Searchable_FindNext(s, p, direction, ignore_selection_offset, wrap) ==
    SelectFrom(Log(s, "FindNext", s.current, 0),
               Candidates(SlotsInDirection(s, p, direction,
                              GetSelectionOffset(s, direction, ignore_selection_offset)),
                          MatchSlots(s.text[s.current], p), wrap),
               direction)

\* the slots Count and ReplaceAll work on: all of them when wrapping, else
\* those before (Up) or after (Down) the cursor position
SlotsFromCursor(s, p, direction, wrap) ==
    IF wrap THEN MatchSlots(s.text[s.current], p)
    ELSE SlotsInDirection(s, p, direction, s.position)

\* Searchable::Count(regex, direction, wrap)
Searchable_Count(s, p, direction, wrap) ==
    LET n == Cardinality(SlotsFromCursor(s, p, direction, wrap))
    IN  [Log(s, "Count", s.current, n) EXCEPT !.count = n]

\* a document with the slots S rewritten to the replacement (a replacement
\* longer than one character is cut to its first character, an empty one
\* blanks the slot, so that offsets keep their meaning)
ReplacedText(txt, S, replacement) ==
    [i \in 1..Len(txt) |->
        IF i \in S THEN (IF replacement = <<>> THEN " " ELSE replacement[1]) ELSE txt[i]]

\* Searchable::ReplaceAll(regex, replacement, direction, wrap)
Searchable_ReplaceAll(s, p, replacement, direction, wrap) ==
    LET S == SlotsFromCursor(s, p, direction, wrap)
        s1 == Log(s, "ReplaceAll", s.current, Cardinality(S))
    IN  [s1 EXCEPT !.count = Cardinality(S),
                   !.text[s.current] = ReplacedText(@, S, replacement)]

\* Searchable::ReplaceSelected(regex, replacement, direction, replace_current):
\* replaces the selection if it is exactly one match of the pattern
Searchable_ReplaceSelected(s, p, replacement, direction, replace_current) ==
    LET i == SelectionEnd(s)
        hit == /\ SelectionEnd(s) = SelectionStart(s) + 1
               /\ i \in MatchSlots(s.text[s.current], p)
        s1 == Log(s, "ReplaceSelected", s.current, IF hit THEN 1 ELSE 0)
    IN  IF hit
        THEN [s1 EXCEPT !.found = TRUE,
                        !.text[s.current] = ReplacedText(@, {i}, replacement)]
        ELSE [s1 EXCEPT !.found = FALSE]

\* FindReplace::ResourceContainsCurrentRegex: scans the resource's text,
\* moves no cursor
\* mutant: every resource passes the containment test
ResourceContainsCurrentRegex_Always(s, resource) == TRUE

ResourceContainsCurrentRegex(s, resource) ==
    MatchSlots(s.text[resource], GetSearchRegex(s)) # {}

\* ghost: one log entry per file of a bulk pass
RECURSIVE LogFiles(_, _, _, _)
LogFiles(s, f, p, files) ==
    IF files = <<>> THEN s
    ELSE LogFiles(Log(s, f, Head(files), Cardinality(MatchSlots(s.text[Head(files)], p))),
                  f, p, Tail(files))

\* SearchOperations::CountInFiles: the matches of all the files, whole files
SearchOperations_CountInFiles(s, p, files) ==
    [LogFiles(s, "CountInFiles", p, files) EXCEPT !.count =
        SeqSum([k \in 1..Len(files) |-> Cardinality(MatchSlots(s.text[files[k]], p))])]

\* SearchOperations::ReplaceInAllFIles: replaces every match of all the files
SearchOperations_ReplaceInAllFiles(s, p, replacement, files) ==
    [LogFiles(s, "ReplaceInAllFiles", p, files) EXCEPT
        !.count = SeqSum([k \in 1..Len(files) |->
                            Cardinality(MatchSlots(s.text[files[k]], p))]),
        !.text = [r \in Resources |->
                    IF Contains(files, r)
                    THEN ReplacedText(s.text[r], MatchSlots(s.text[r], p), replacement)
                    ELSE s.text[r]]]

\* mutant: the missing Searchable goes unreported
GetAvailableSearchable_Silent(s) == s

\* GetAvailableSearchable(): the state after the call; the pointer it returns
\* is non-null iff GetSearchableContent
GetAvailableSearchable(s) ==
    IF GetSearchableContent(s) THEN s
    ELSE ShowMessage(s, "This tab cannot be searched")

\* ghost: a pattern construction
BuildRegex(s) == Log(s, "GetSearchRegex", NoResource, 0)

(* --------------------------- Scope Resolver --------------------------- *)
\* the catalog query of a look-where setting
ScopeResources(s) ==
    CASE GetLookWhere(s) = "AH" -> GetAllHTMLResources(s)
      [] GetLookWhere(s) = "SH" -> GetValidSelectedHTMLResources(s)
      [] GetLookWhere(s) = "TH" -> GetTabbedHTMLResources(s)
      [] GetLookWhere(s) = "AC" -> GetAllCSSResources(s)
      [] GetLookWhere(s) = "SC" -> GetValidSelectedCSSResources(s)
      [] GetLookWhere(s) = "TC" -> GetTabbedCSSResources(s)
      [] GetLookWhere(s) = "OP" -> GetOPFResource(s)
      [] GetLookWhere(s) = "NX" -> GetNCXResource(s)
      [] OTHER -> <<>>

\* the index of the first occurrence of x in q (x is in q)
IndexOf(q, x) == CHOOSE i \in 1..Len(q) : q[i] = x /\ \A j \in 1..(i - 1) : q[j] # x

\* mutant: the truncation takes the wrong side of the current resource
GetFilesToSearch_WrongSide(s) ==
    LET all_resources == ScopeResources(s)
        current_resource == GetCurrentResource(s)
    IN  IF s.m_OptionWrap \/ ~Contains(all_resources, current_resource)
        THEN all_resources
        ELSE IF GetSearchDirection(s) = "DN"
             THEN SubSeq(all_resources, 1, IndexOf(all_resources, current_resource))
             ELSE SubSeq(all_resources, IndexOf(all_resources, current_resource),
                         Len(all_resources))

\* mutant: the list is truncated even when wrapping
GetFilesToSearch_IgnoreWrap(s) ==
    LET all_resources == ScopeResources(s)
        current_resource == GetCurrentResource(s)
    IN  IF ~Contains(all_resources, current_resource)
        THEN all_resources
        ELSE IF GetSearchDirection(s) = "UP"
             THEN SubSeq(all_resources, 1, IndexOf(all_resources, current_resource))
             ELSE SubSeq(all_resources, IndexOf(all_resources, current_resource),
                         Len(all_resources))

\* the part of the catalog's list that is searched
FilesToSearch(s, all_resources, current_resource) ==
    IF s.m_OptionWrap \/ ~Contains(all_resources, current_resource)
    THEN all_resources
    ELSE IF GetSearchDirection(s) = "UP"
         THEN SubSeq(all_resources, 1, IndexOf(all_resources, current_resource))
         ELSE SubSeq(all_resources, IndexOf(all_resources, current_resource),
                     Len(all_resources))

GetFilesToSearch(s) == FilesToSearch(s, ScopeResources(s), GetCurrentResource(s))

IsCurrentFileInSelection(s) ==
    /\ GetCurrentResource(s) # NoResource
    /\ Contains(GetFilesToSearch(s), GetCurrentResource(s))

(* ------------------------ Cross-Document Cursor ----------------------- *)
\* mutant: the step does not wrap around at the ends of the list
GetNextResource_NoWrapBack(s, current_resource, direction) ==
    LET resources == GetFilesToSearch(s)
        max_reading_order == Len(resources) - 1
        current_reading_order ==
            IF current_resource # NoResource /\ Contains(resources, current_resource)
            THEN IndexOf(resources, current_resource) - 1 ELSE 0
        next_reading_order ==
            IF direction = "Direction_Up"
            THEN current_reading_order - 1 ELSE current_reading_order + 1
    IN  IF next_reading_order > max_reading_order \/ next_reading_order < 0
        THEN NoResource
        ELSE resources[next_reading_order + 1]

\* reading orders are 0-based as in the code
ReadingOrderOf(resources, current_resource) ==
    IF current_resource # NoResource /\ Contains(resources, current_resource)
    THEN IndexOf(resources, current_resource) - 1 ELSE 0

NextReadingOrder(current_reading_order, max_reading_order, direction) ==
    IF direction = "Direction_Up"
    THEN (IF current_reading_order - 1 >= 0
          THEN current_reading_order - 1 ELSE max_reading_order)
    ELSE (IF current_reading_order + 1 <= max_reading_order
          THEN current_reading_order + 1 ELSE 0)

ResourceAt(resources, next_reading_order) ==
    IF next_reading_order > Len(resources) - 1 \/ next_reading_order < 0
    THEN NoResource
    ELSE resources[next_reading_order + 1]

NextResourceOf(resources, current_resource, direction) ==
    ResourceAt(resources,
               NextReadingOrder(ReadingOrderOf(resources, current_resource),
                                Len(resources) - 1, direction))

GetNextResource(s, current_resource, direction) ==
    NextResourceOf(GetFilesToSearch(s), current_resource, direction)

\* the while loop of GetNextContainingResource; fuel bounds the iterations
\* the model follows, a loop that outlasts it is reported as a hang
RECURSIVE ContainingLoop(_, _, _, _, _, _)
\* mutant: coming back to the starting resource is not remembered
ContainingTest_NeverPassed(s, n, hit, starting_resource, passed, direction, fuel) ==
    IF hit THEN [Log(s, "Contains", n, 1) EXCEPT !.containing = n]
    ELSE ContainingLoop(Log(s, "Contains", n, 0), n, starting_resource,
                        passed, direction, fuel - 1)

\* the containment test of the loop body
ContainingTest(s, n, hit, starting_resource, passed, direction, fuel) ==
    IF hit THEN [Log(s, "Contains", n, 1) EXCEPT !.containing = n]
    ELSE ContainingLoop(Log(s, "Contains", n, 0), n, starting_resource,
                        passed \/ n = starting_resource, direction, fuel - 1)

\* mutant: coming back to the starting resource ends the pass, wrap or not
ContainingStep_StopAtSeed(s, n, starting_resource, passed, direction, fuel) ==
    IF n = starting_resource
    THEN [s EXCEPT !.containing = NoResource]
    ELSE IF n = NoResource THEN [s EXCEPT !.containing = NoResource]
    ELSE ContainingTest(s, n, ResourceContainsCurrentRegex(s, n), starting_resource,
                        passed, direction, fuel)

\* the loop body, n being the next resource
ContainingStep(s, n, starting_resource, passed, direction, fuel) ==
    IF n = starting_resource /\ ~s.m_OptionWrap
    THEN [s EXCEPT !.containing = NoResource]
    ELSE IF n = NoResource THEN [s EXCEPT !.containing = NoResource]
    ELSE ContainingTest(s, n, ResourceContainsCurrentRegex(s, n), starting_resource,
                        passed, direction, fuel)

ContainingLoop(s, next_resource, starting_resource, passed, direction, fuel) ==
    IF ~(~passed \/ next_resource # starting_resource)
    THEN [s EXCEPT !.containing = NoResource]
    ELSE IF fuel = 0 THEN [s EXCEPT !.crashed = "hang"]
    ELSE ContainingStep(s, GetNextResource(s, next_resource, direction),
                        starting_resource, passed, direction, fuel)

\* mutant: the traversal is always seeded at the boundary of the list
StartingResource_AlwaysBoundary(s, direction) ==
    IF direction = "Direction_Up" THEN GetFilesToSearch(s)[1]
    ELSE GetFilesToSearch(s)[Len(GetFilesToSearch(s))]

\* the resource the traversal is seeded at
SameType(s, current_resource) ==
    \/ isWhereHTML(s) /\ Type(current_resource) = "HTMLResourceType"
    \/ isWhereCSS(s) /\ Type(current_resource) = "CSSResourceType"
    \/ isWhereOPF(s) /\ Type(current_resource) = "OPFResourceType"
    \/ isWhereNCX(s) /\ Type(current_resource) = "NCXResourceType"

\* the first (Up) or last (Down) resource of the list
BoundaryResource(resources, direction) ==
    IF direction = "Direction_Up" THEN resources[1] ELSE resources[Len(resources)]

\* mutant: a current resource of the scope's type is the seed, listed or not
StartingResource_TypeOnly(s, direction) ==
    IF ~SameType(s, GetCurrentResource(s))
    THEN BoundaryResource(GetFilesToSearch(s), direction)
    ELSE GetCurrentResource(s)

StartingResource(s, direction) ==
    IF ~SameType(s, GetCurrentResource(s))
       \/ (isWhereSelected(s) /\ ~IsCurrentFileInSelection(s))
    THEN BoundaryResource(GetFilesToSearch(s), direction)
    ELSE GetCurrentResource(s)

\* mutant: no special case for a list of one element
GetNextContainingResource_NoSpecialCase(s, direction) ==
    LET resources == GetFilesToSearch(s)
    IN  IF resources = <<>> THEN [s EXCEPT !.containing = NoResource]
        ELSE ContainingLoop(s, StartingResource(s, direction),
                            StartingResource(s, direction), FALSE,
                            direction, 2 * Len(resources) + 2)

\* the special case of a list of one element without wrap
SoleResource(s, starting_resource, hit) ==
    [Log(s, "Contains", starting_resource, IF hit THEN 1 ELSE 0) EXCEPT
        !.containing = IF hit THEN starting_resource ELSE NoResource]

ContainingFrom(s, resources, starting_resource, direction) ==
    IF Len(resources) = 1 /\ ~s.m_OptionWrap
    THEN IF IsCurrentFileInSelection(s)
         THEN [s EXCEPT !.containing = NoResource]
         ELSE SoleResource(s, starting_resource,
                           ResourceContainsCurrentRegex(s, starting_resource))
    ELSE ContainingLoop(s, starting_resource, starting_resource, FALSE,
                        direction, 2 * Len(resources) + 2)

GetNextContainingResource(s, direction) ==
    IF GetFilesToSearch(s) = <<>> THEN [s EXCEPT !.containing = NoResource]
    ELSE ContainingFrom(s, GetFilesToSearch(s), StartingResource(s, direction),
                        direction)

(* ------------------------ Operation Orchestrator ---------------------- *)
\* mutant: the reset goes to the first resource whatever the override
SetFirstResource_AnyScope(s, update_position) ==
    IF isWhereCF(s) THEN s
    ELSE IF ScopeResources(s) = <<>> THEN [s EXCEPT !.crashed = "undefined"]
    ELSE OpenResourceAndWaitUntilLoaded(s, ScopeResources(s)[1],
                                        IF update_position THEN 0 ELSE -1)

\* resources.first() / last() on an empty list is undefined: the operation
\* stops there ("undefined"; the action that runs it picks the outcome)
SetFirstResource(s, update_position) ==
    IF isWhereCF(s) \/ s.m_LookWhereCurrentFile \/ IsMarkedText(s) THEN s
    ELSE LET resources == ScopeResources(s)
         IN  IF resources = <<>> THEN [s EXCEPT !.crashed = "undefined"]
             ELSE LET first_resource ==
                          IF GetSearchDirection(s) = "DN"
                          THEN resources[1] ELSE resources[Len(resources)]
                      pos == IF GetSearchDirection(s) = "DN" THEN 0
                             ELSE Len(s.text[first_resource])
                  IN  OpenResourceAndWaitUntilLoaded(s, first_resource,
                          IF update_position THEN pos ELSE -1)

\* if (IsNewSearch()) { SetFirstResource(true); SetPreviousSearch(); }
RecordSearch(s) == IF s.crashed # "no" THEN s ELSE SetPreviousSearch(s)

ResetIfNewSearch(s) ==
    IF IsNewSearch(s) THEN RecordSearch(SetFirstResource(s, TRUE)) ELSE s

\* mutant: the current resource is left out of the bulk pass under wrap too
SearchFiles_AlwaysRemove(s, files) == RemoveOne(files, GetCurrentResource(s))

\* mutant: the current resource stays in the bulk pass
SearchFiles_NeverRemove(s, files) == files

\* the files of the bulk pass: without wrap the current one is left out
SearchFiles(s, files) ==
    IF ~s.m_OptionWrap THEN RemoveOne(files, GetCurrentResource(s)) ELSE files

CountInFiles(s) ==
    SearchOperations_CountInFiles(BuildRegex(s), GetSearchRegex(s),
                                  SearchFiles(s, GetFilesToSearch(s)))

ReplaceInAllFiles(s) ==
    SearchOperations_ReplaceInAllFiles(BuildRegex(s), GetSearchRegex(s), s.cbReplace,
                                       SearchFiles(s, GetFilesToSearch(s)))

\* the find in the open document, if it is one of the files to search
FindInCurrentFile(s, direction, searchable) ==
    IF searchable
    THEN Searchable_FindNext(BuildRegex(s), GetSearchRegex(s), direction, FALSE, FALSE)
    ELSE [s EXCEPT !.found = FALSE]

Reselect(s, selected_resources) ==
    IF isWhereSelected(s) THEN SelectResources(s, selected_resources) ELSE s

\* the find in the resource just opened, from its top or bottom
FindInOpened(s, direction) ==
    IF GetSearchableContent(s)
    THEN Searchable_FindNext(BuildRegex(s), GetSearchRegex(s), direction, TRUE, FALSE)
    ELSE GetAvailableSearchable(s)

\* after GetNextContainingResource: open the resource it located, or search
\* the open document once more
FindInContaining(s, direction, searchable) ==
    IF s.crashed # "no" THEN s
    ELSE IF s.containing # NoResource
    THEN FindInOpened(Reselect(OpenResourceAndWaitUntilLoaded(s, s.containing, -1),
                               GetFilesToSearch(s)),
                      direction)
    ELSE IF searchable
         THEN Searchable_FindNext(BuildRegex(s), GetSearchRegex(s), direction,
                                  FALSE, FALSE)
         ELSE s

FindInOtherFiles(s, direction, searchable) ==
    IF s.found THEN s
    ELSE FindInContaining(GetNextContainingResource(s, direction), direction,
                          searchable)

FindInAllFiles(s, direction) ==
    FindInOtherFiles(
        FindInCurrentFile(s, direction,
                          IsCurrentFileInSelection(s) /\ GetSearchableContent(s)),
        direction, IsCurrentFileInSelection(s) /\ GetSearchableContent(s))

ReportFind(s) ==
    IF s.crashed # "no" THEN s
    ELSE IF s.found THEN clearMessage(s) ELSE CannotFindSearchTerm(s)

FindValidText(s, direction) ==
    IF ~IsValidFindText(s) THEN s
    ELSE IF isWhereCF(s) \/ s.m_LookWhereCurrentFile \/ IsMarkedText(s)
    THEN (IF ~GetSearchableContent(s) THEN GetAvailableSearchable(s)
          ELSE ReportFind(Searchable_FindNext(BuildRegex(s), GetSearchRegex(s),
                                              direction, FALSE, s.m_OptionWrap)))
    ELSE ReportFind(FindInAllFiles(s, direction))

FindText(s, direction) ==
    FindValidText([clearMessage(s) EXCEPT !.found = FALSE], direction)

FindNext(s) == FindText(s, "Direction_Down")

FindPrevious(s) == FindText(s, "Direction_Up")

FindInDirection(s) ==
    IF s.crashed # "no" THEN s
    ELSE IF GetSearchDirection(s) = "UP" THEN FindPrevious(s) ELSE FindNext(s)

Find(s) == FindInDirection(ResetIfNewSearch(s))

ShowCount(s, zero, some) ==
    IF s.count = 0 THEN ShowMessage(s, zero) ELSE ShowMessage(s, some)

\* count = CountInFiles() + searchable->Count(...)
AddCount(s, c) == [c EXCEPT !.count = s.count + c.count]

CountInCurrentFile(s) ==
    IF s.m_OptionWrap THEN s
    ELSE IF ~GetSearchableContent(s) THEN GetAvailableSearchable(s)
    ELSE AddCount(s, Searchable_Count(BuildRegex(s), GetSearchRegex(s),
                                      GetSearchableDirection(s), s.m_OptionWrap))

CountValidText(s) ==
    IF s.crashed # "no" THEN s
    ELSE IF ~IsValidFindText(s) THEN s
    ELSE IF isWhereCF(s) \/ s.m_LookWhereCurrentFile \/ IsMarkedText(s)
    THEN (IF ~GetSearchableContent(s) THEN GetAvailableSearchable(s)
          ELSE ShowCount(Searchable_Count(BuildRegex(s), GetSearchRegex(s),
                                          GetSearchableDirection(s), s.m_OptionWrap),
                         "No matches found", "Matches found: %n"))
    ELSE ShowCount(CountInCurrentFile(CountInFiles(s)),
                   "No matches found", "Matches found: %n")

Count(s) == CountValidText(ResetIfNewSearch([clearMessage(s) EXCEPT !.count = 0]))

\* mutant: the notifications fire whatever the count
MarkModified_Always(s) ==
    Log(Log(s, "SetModified", NoResource, 1), "ContentChangedExternally", s.current, 0)

\* if (count > 0) { the book is modified and the current tab told }
MarkModified(s) ==
    IF s.count > 0
    THEN Log(Log(s, "SetModified", NoResource, 1),
             "ContentChangedExternally", s.current, 0)
    ELSE s

ReplaceAllDone(s) ==
    MarkModified(ShowCount(s, "No replacements made", "Replacements made: %n"))

ReplaceAllInCurrentFile(s) ==
    IF s.m_OptionWrap THEN s
    ELSE IF ~GetSearchableContent(s) THEN GetAvailableSearchable(s)
    ELSE AddCount(s, Searchable_ReplaceAll(BuildRegex(s), GetSearchRegex(s),
                         s.cbReplace, GetSearchableDirection(s), s.m_OptionWrap))

ReplaceAllValidText(s) ==
    IF s.crashed # "no" THEN s
    ELSE IF ~IsValidFindText(s) THEN s
    ELSE IF isWhereCF(s) \/ s.m_LookWhereCurrentFile \/ IsMarkedText(s)
    THEN (IF ~GetSearchableContent(s) THEN GetAvailableSearchable(s)
          ELSE ReplaceAllDone(
                   Searchable_ReplaceAll(BuildRegex(s), GetSearchRegex(s), s.cbReplace,
                                         GetSearchableDirection(s), s.m_OptionWrap)))
    ELSE ReplaceAllDone(ReplaceAllInCurrentFile(ReplaceInAllFiles(s)))

ReplaceAll(s) ==
    ReplaceAllValidText(ResetIfNewSearch([clearMessage(s) EXCEPT !.count = 0]))

\* mutant: no Find follows the replacement
FindAfterReplace_Never(s, direction, replace_current) == s

\* after the replacement: done, or on to the next match
FindAfterReplace(s, direction, replace_current) ==
    IF replace_current THEN s
    ELSE IF direction = "Direction_Up" THEN FindPrevious(s) ELSE FindNext(s)

ReplaceValidText(s, direction, replace_current) ==
    IF ~IsValidFindText(s) THEN s
    ELSE IF ~GetSearchableContent(s) THEN GetAvailableSearchable(s)
    ELSE FindAfterReplace(
             Searchable_ReplaceSelected(BuildRegex(s), GetSearchRegex(s), s.cbReplace,
                                        direction, replace_current),
             direction, replace_current)

ReplaceText(s, direction, replace_current) ==
    ReplaceValidText([clearMessage(s) EXCEPT !.found = FALSE], direction,
                     replace_current)

ReplaceNext(s) == ReplaceText(s, "Direction_Down", FALSE)

ReplacePrevious(s) == ReplaceText(s, "Direction_Up", FALSE)

ReplaceInDirection(s) ==
    IF s.crashed # "no" THEN s
    ELSE IF GetSearchDirection(s) = "UP" THEN ReplacePrevious(s) ELSE ReplaceNext(s)

Replace(s) == ReplaceInDirection(ResetIfNewSearch(s))

ReplaceCurrent(s) ==
    IF GetSearchDirection(s) = "UP" THEN ReplaceText(s, "Direction_Up", TRUE)
    ELSE ReplaceText(s, "Direction_Down", TRUE)

SetKeyModifiers(s, ctrl) == [s EXCEPT !.m_LookWhereCurrentFile = ctrl]

\* mutant: the override outlives the click
ResetKeyModifiers_Keep(s) == s

ResetKeyModifiers(s) == [s EXCEPT !.m_LookWhereCurrentFile = FALSE]

(* ------------------------- the saved searches ------------------------- *)
\* QString::contains for a control token
HasToken(text, tok) == \E i \in 1..(Len(text) - 1) : SubSeq(text, i, i + 1) = Chars(tok)

\* the first token of toks, in order, that the text contains; keep if none
FirstToken(text, toks, keep) ==
    IF \A i \in 1..Len(toks) : ~HasToken(text, toks[i]) THEN keep
    ELSE toks[CHOOSE i \in 1..Len(toks) :
                 HasToken(text, toks[i]) /\ \A j \in 1..(i - 1) : ~HasToken(text, toks[j])]

\* mutant: the check boxes are ticked for the tokens present, never cleared
UpdateSearchControls_OnlyTicks(s, text) ==
    IF text = <<>> THEN s
    ELSE [s EXCEPT
            !.cbSearchMode = FirstToken(text, <<"NL", "RX", "CS">>, @),
            !.cbLookWhere = FirstToken(text, TGTS, @),
            !.cbSearchDirection = FirstToken(text, <<"UP", "DN">>, @),
            !.m_OptionWrap = @ \/ HasToken(text, "WR"),
            !.m_RegexOptionDotAll = @ \/ HasToken(text, "DA"),
            !.m_RegexOptionMinimalMatch = @ \/ HasToken(text, "MM"),
            !.m_RegexOptionAutoTokenise = @ \/ HasToken(text, "AT")]

UpdateSearchControls(s, text) ==
    IF text = <<>> THEN s
    ELSE [s EXCEPT
            !.cbSearchMode = FirstToken(text, <<"NL", "RX", "CS">>, @),
            !.cbLookWhere = FirstToken(text, TGTS, @),
            !.cbSearchDirection = FirstToken(text, <<"UP", "DN">>, @),
            !.m_OptionWrap = HasToken(text, "WR"),
            !.m_RegexOptionDotAll = HasToken(text, "DA"),
            !.m_RegexOptionMinimalMatch = HasToken(text, "MM"),
            !.m_RegexOptionAutoTokenise = HasToken(text, "AT")]

\* UpdatePreviousFindStrings(text): the text becomes the one of the Find box
UpdatePreviousFindStrings(s, text) == [s EXCEPT !.cbFind = text]

UpdatePreviousReplaceStrings(s, text) == [s EXCEPT !.cbReplace = text]

\* LoadSearch of the k-th entry handed over by the Search Editor
LoadSearch(s, search_entry, k) ==
    ShowMessage(
        UpdateSearchControls(
            UpdatePreviousReplaceStrings(
                UpdatePreviousFindStrings(Log(s, "LoadSearch", NoResource, k),
                                          search_entry.find),
                search_entry.replace),
            search_entry.controls),
        "Loaded")

\* MainWindow::SearchEditorRecordEntryAsCompleted
SearchEditorRecordEntryAsCompleted(s, k) ==
    Log(s, "RecordEntryAsCompleted", NoResource, k)

BeginSearchGroup(s, ctrl) ==
    [SetKeyModifiers(s, ctrl) EXCEPT !.m_IsSearchGroupRunning = TRUE]

EndSearchGroup(s) ==
    IF s.crashed # "no" THEN s
    ELSE ResetKeyModifiers([s EXCEPT !.m_IsSearchGroupRunning = FALSE])

RECURSIVE SearchLoop(_, _, _, _)

\* mutant: the entry that matched is recorded as completed too
SearchStep_MarkMatching(t, search_entries, k, replace) ==
    IF t.crashed # "no" THEN t
    ELSE IF t.found THEN SearchEditorRecordEntryAsCompleted(t, k)
    ELSE SearchLoop(SearchEditorRecordEntryAsCompleted(t, k), search_entries, k + 1,
                    replace)

\* the loop of FindSearch (replace = FALSE) and of ReplaceSearch (TRUE), from
\* the k-th entry on
SearchStep(t, search_entries, k, replace) ==
    IF t.crashed # "no" \/ t.found THEN t
    ELSE SearchLoop(SearchEditorRecordEntryAsCompleted(t, k), search_entries, k + 1,
                    replace)

SearchLoop(s, search_entries, k, replace) ==
    IF k > Len(search_entries) THEN s
    ELSE SearchStep(IF replace THEN Replace(LoadSearch(s, search_entries[k], k))
                    ELSE Find(LoadSearch(s, search_entries[k], k)),
                    search_entries, k, replace)

FindSearch(s, search_entries, ctrl) ==
    IF search_entries = <<>> THEN ShowMessage(s, "No searches selected")
    ELSE EndSearchGroup(SearchLoop(BeginSearchGroup(s, ctrl), search_entries, 1, FALSE))

ReplaceSearch(s, search_entries, ctrl) ==
    IF search_entries = <<>> THEN ShowMessage(s, "No searches selected")
    ELSE EndSearchGroup(SearchLoop(BeginSearchGroup(s, ctrl), search_entries, 1, TRUE))

\* only the first entry is used and the key modifiers are left alone
ReplaceCurrentSearch(s, search_entries) ==
    IF search_entries = <<>> THEN ShowMessage(s, "No searches selected")
    ELSE [ReplaceCurrent(LoadSearch([s EXCEPT !.m_IsSearchGroupRunning = TRUE],
                                    search_entries[1], 1))
             EXCEPT !.m_IsSearchGroupRunning = FALSE]

\* the loop of CountAllSearch (replace = FALSE) and of ReplaceAllSearch (TRUE):
\* every entry is used, the counts add up; Replace All marks every entry
RECURSIVE TotalLoop(_, _, _, _, _)

\* mutant: the batch stops at the first entry with a positive count
TotalStep_StopOnSuccess(t, search_entries, k, total, replace) ==
    IF t.crashed # "no" THEN t
    ELSE IF t.count > 0 THEN [t EXCEPT !.count = total + t.count]
    ELSE TotalLoop(IF replace THEN SearchEditorRecordEntryAsCompleted(t, k) ELSE t,
                   search_entries, k + 1, total + t.count, replace)

TotalStep(t, search_entries, k, total, replace) ==
    IF t.crashed # "no" THEN t
    ELSE TotalLoop(IF replace THEN SearchEditorRecordEntryAsCompleted(t, k) ELSE t,
                   search_entries, k + 1, total + t.count, replace)

TotalLoop(s, search_entries, k, total, replace) ==
    IF k > Len(search_entries) THEN [s EXCEPT !.count = total]
    ELSE TotalStep(IF replace THEN ReplaceAll(LoadSearch(s, search_entries[k], k))
                   ELSE Count(LoadSearch(s, search_entries[k], k)),
                   search_entries, k, total, replace)

\* the message of the total, shown once the group is over
ShowTotal(s, zero, some) ==
    IF s.crashed # "no" THEN s
    ELSE ResetKeyModifiers(ShowCount([s EXCEPT !.m_IsSearchGroupRunning = FALSE],
                                     zero, some))

CountAllSearch(s, search_entries, ctrl) ==
    IF search_entries = <<>> THEN ShowMessage(s, "No searches selected")
    ELSE ShowTotal(TotalLoop(BeginSearchGroup(s, ctrl), search_entries, 1, 0, FALSE),
                   "No matches found", "Matches found: %n")

ReplaceAllSearch(s, search_entries, ctrl) ==
    IF search_entries = <<>> THEN ShowMessage(s, "No searches selected")
    ELSE ShowTotal(TotalLoop(BeginSearchGroup(s, ctrl), search_entries, 1, 0, TRUE),
                   "No replacements made", "Replacements made: %n")

(* ------------------------------- state -------------------------------- *)
VARIABLES
    cbFind, cbReplace, cbSearchMode, cbLookWhere, cbSearchDirection,
    m_RegexOptionDotAll, m_RegexOptionMinimalMatch, m_RegexOptionAutoTokenise,
    m_OptionWrap, m_LookWhereCurrentFile, m_IsSearchGroupRunning,
    m_PreviousSearch, markedText,
    current, anchor, position, text, selected, tabs,
    message, crashed,
    calls, found, count, containing,
    op, before, visits

vars == <<cbFind, cbReplace, cbSearchMode, cbLookWhere, cbSearchDirection,
          m_RegexOptionDotAll, m_RegexOptionMinimalMatch, m_RegexOptionAutoTokenise,
          m_OptionWrap, m_LookWhereCurrentFile, m_IsSearchGroupRunning,
          m_PreviousSearch, markedText,
          current, anchor, position, text, selected, tabs,
          message, crashed,
          calls, found, count, containing,
          op, before, visits>>

\* the state of the panel and of its host as one record, the form the
\* operations above work on
Here ==
    [cbFind |-> cbFind, cbReplace |-> cbReplace, cbSearchMode |-> cbSearchMode,
     cbLookWhere |-> cbLookWhere, cbSearchDirection |-> cbSearchDirection,
     m_RegexOptionDotAll |-> m_RegexOptionDotAll,
     m_RegexOptionMinimalMatch |-> m_RegexOptionMinimalMatch,
     m_RegexOptionAutoTokenise |-> m_RegexOptionAutoTokenise,
     m_OptionWrap |-> m_OptionWrap,
     m_LookWhereCurrentFile |-> m_LookWhereCurrentFile,
     m_IsSearchGroupRunning |-> m_IsSearchGroupRunning,
     m_PreviousSearch |-> m_PreviousSearch, markedText |-> markedText,
     current |-> current, anchor |-> anchor, position |-> position, text |-> text,
     selected |-> selected, tabs |-> tabs, message |-> message, crashed |-> crashed,
     calls |-> calls, found |-> found, count |-> count, containing |-> containing]

\* the outcomes of the undefined access to an empty list: the debug build's
\* Q_ASSERT, or the dereference of the pointer read from the empty list
UBOutcomes == {"assert", "segv"}

\* an operation starts with an empty call log and no located resource
Start == [Here EXCEPT !.calls = <<>>, !.containing = NoResource]

Commit(t) ==
    /\ cbFind' = t.cbFind /\ cbReplace' = t.cbReplace
    /\ cbSearchMode' = t.cbSearchMode /\ cbLookWhere' = t.cbLookWhere
    /\ cbSearchDirection' = t.cbSearchDirection
    /\ m_RegexOptionDotAll' = t.m_RegexOptionDotAll
    /\ m_RegexOptionMinimalMatch' = t.m_RegexOptionMinimalMatch
    /\ m_RegexOptionAutoTokenise' = t.m_RegexOptionAutoTokenise
    /\ m_OptionWrap' = t.m_OptionWrap
    /\ m_LookWhereCurrentFile' = t.m_LookWhereCurrentFile
    /\ m_IsSearchGroupRunning' = t.m_IsSearchGroupRunning
    /\ m_PreviousSearch' = t.m_PreviousSearch /\ markedText' = t.markedText
    /\ current' = t.current /\ anchor' = t.anchor /\ position' = t.position
    /\ text' = t.text /\ selected' = t.selected /\ tabs' = t.tabs
    /\ message' = t.message
    /\ crashed' \in (IF t.crashed = "undefined" THEN UBOutcomes ELSE {t.crashed})
    /\ calls' = t.calls /\ found' = t.found /\ count' = t.count
    /\ containing' = t.containing

(* --------------------------- initial states --------------------------- *)
CorpusScopes == {"AH", "SH", "TH", "AC", "SC", "TC", "OP", "NX"}

ScopeType(lw) ==
    CASE lw \in {"AH", "SH", "TH"} -> "HTMLResourceType"
      [] lw \in {"AC", "SC", "TC"} -> "CSSResourceType"
      [] lw = "OP" -> "OPFResourceType"
      [] lw = "NX" -> "NCXResourceType"
      [] OTHER -> "GenericResourceType"

\* a document with k occurrences of "a"
TextOf(k) == [i \in 1..k |-> "a"]

\* the sets of resources of a type that can be selected or open in tabs
OfType(type) == {r \in Resources : Type(r) = type}

FirstOfType(type) == {r \in OfType(type) : \A q \in OfType(type) : r <= q}

SetChoices(type, few) ==
    IF few
    THEN {{}, FirstOfType(type), OfType(type) \ FirstOfType(type), OfType(type)}
    ELSE SUBSET OfType(type)

\* the tab orders: the members of a set in reading order or in its reverse
Reverse(q) == [i \in 1..Len(q) |-> q[Len(q) + 1 - i]]

TabOrders(T) == {InOrder(T, 1), Reverse(InOrder(T, 1))}

\* the open tabs under a Tabbed scope: the current resource and resources of
\* the type; few keeps the reading order but for all of them open
TabChoices(type, cur, few) ==
    IF few
    THEN {InOrder(T \cup {cur}, 1) : T \in SetChoices(type, TRUE)}
         \cup {Reverse(InOrder(OfType(type) \cup {cur}, 1))}
    ELSE UNION {TabOrders(T \cup {cur}) : T \in SetChoices(type, FALSE)}

\* the cursor of the current document: a position without selection
Cursors(txt) == {<<p, p>> : p \in 0..Len(txt)}

\* the cursor at the top of the document
AtTop(txt) == {<<0, 0>>}

CursorChoices(txt, any) == IF any THEN Cursors(txt) ELSE AtTop(txt)

\* the signature the last search left: none, the one of the controls c and
\* the texts ("same"), or one that differs from it in the find text, in the
\* replace text or in the control string (another search mode)
PreviousSearchOf(v, find, replace, c) ==
    CASE v = "none" -> <<>>
      [] v = "same" -> <<find, replace, GetControls(c)>>
      [] v = "find" -> <<find \o <<"b">>, replace, GetControls(c)>>
      [] v = "replace" -> <<find, replace \o <<"b">>, GetControls(c)>>
      [] v = "controls" ->
            <<find, replace,
              GetControls([c EXCEPT !.cbSearchMode = IF @ = "CS" THEN "NL" ELSE "CS"])>>

\* The states a session can be in when an operation is invoked.  A document
\* has text only if it belongs to the type the scope covers or, with outside,
\* is the current one; the selection varies under the Selected scopes and the
\* open tabs under the Tabbed scopes.  prevs tells whether the last signature
\* may be the current one ("same") or is absent ("none"); matches bounds the
\* matches of a document and anywhere tells whether the cursor may be
\* anywhere or is at the top.  The other documents have up to others
\* matches; few restricts the selections and the sets of open tabs to the
\* empty one, the first resource of the type, all but the first and all;
\* flags holds the values the regex option check boxes may have.
InitWith(finds, modes, scopes, wraps, prevs, matches, others, anywhere, outside, few, flags) ==
    /\ cbFind \in finds
    /\ cbReplace = <<"x">>
    /\ cbSearchMode \in modes
    /\ cbLookWhere \in scopes
    /\ cbSearchDirection \in Range(DRS)
    /\ m_RegexOptionDotAll \in flags
    /\ m_RegexOptionMinimalMatch \in flags
    /\ m_RegexOptionAutoTokenise \in flags
    /\ m_OptionWrap \in wraps
    /\ m_LookWhereCurrentFile = FALSE
    /\ m_IsSearchGroupRunning = FALSE
    /\ markedText = FALSE
    /\ current \in Resources
    /\ \E n \in [OfType(ScopeType(cbLookWhere)) \ {current} -> 0..others] :
       \E k \in 0..(IF outside \/ Type(current) = ScopeType(cbLookWhere)
                     THEN matches ELSE 0) :
          text = [r \in Resources |->
                     IF r = current THEN TextOf(k)
                     ELSE IF r \in DOMAIN n THEN TextOf(n[r]) ELSE <<>>]
    /\ \E c \in CursorChoices(text[current], anywhere) :
          anchor = c[1] /\ position = c[2]
    /\ selected \in IF cbLookWhere \in {"SH", "SC"}
                     THEN SetChoices(ScopeType(cbLookWhere), few)
                     ELSE {{current}}
    /\ tabs \in IF cbLookWhere \in {"TH", "TC"}
                 THEN TabChoices(ScopeType(cbLookWhere), current, few)
                 ELSE {<<current>>}
    /\ m_PreviousSearch \in
          {PreviousSearchOf(v, cbFind, cbReplace,
                            [cbSearchMode |-> cbSearchMode,
                             cbLookWhere |-> cbLookWhere,
                             cbSearchDirection |-> cbSearchDirection,
                             m_RegexOptionDotAll |-> m_RegexOptionDotAll,
                             m_RegexOptionMinimalMatch |-> m_RegexOptionMinimalMatch,
                             m_RegexOptionAutoTokenise |-> m_RegexOptionAutoTokenise,
                             m_OptionWrap |-> m_OptionWrap]) : v \in prevs}
    /\ message = <<>>
    /\ crashed = "no"
    /\ calls = <<>>
    /\ found = FALSE
    /\ count = 0
    /\ containing = NoResource
    /\ op = "none"
    /\ before = [current |-> current, anchor |-> anchor, position |-> position,
                 text |-> text, all |-> <<>>, files |-> <<>>, seed |-> NoResource,
                 direction |-> "none", new |-> FALSE, ctrl |-> FALSE,
                 selected |-> selected, marked |-> FALSE]
    /\ visits = <<>>

(* ---------------- the scope resolver and the cursor, applied ---------- *)
\* the inputs an operation saw, kept for the properties
Snapshot(direction) ==
    [current |-> current, anchor |-> anchor, position |-> position,
     text |-> text, all |-> ScopeResources(Here), files |-> GetFilesToSearch(Here),
     seed |-> IF GetFilesToSearch(Here) = <<>> THEN NoResource
              ELSE StartingResource(Here, direction),
     direction |-> direction, new |-> IsNewSearch(Here), ctrl |-> FALSE,
     selected |-> selected, marked |-> markedText]

\* GetNextContainingResource(direction), called in the current state
CallGetNextContainingResource(direction) ==
    /\ crashed = "no"
    /\ \E t \in {GetNextContainingResource(Start, direction)} : Commit(t)
    /\ op' = "GetNextContainingResource"
    /\ before' = Snapshot(direction)
    /\ UNCHANGED visits

InitFn ==
    InitWith({<<"a">>}, {"NL"}, CorpusScopes, BOOLEAN, {"same"}, 1, 1,
             FALSE, FALSE, FALSE, {FALSE})

NextFn ==
    \/ CallGetNextContainingResource("Direction_Down")
    \/ CallGetNextContainingResource("Direction_Up")

SpecFn == InitFn /\ [][NextFn]_vars

(* --------------------------- the find slots --------------------------- *)
\* ghost: the resources successive finds in one direction landed in; a find
\* lands anew when it is the first of its run or when it moved to a resource
\* located by GetNextContainingResource.  The last Len(Resources) landings
\* are kept.
KeepLast(q) == IF Len(q) > NCX THEN Tail(q) ELSE q

Landed(t, run) ==
    KeepLast(IF t.found /\ (run = <<>> \/ t.containing # NoResource)
             THEN Append(run, t.current) ELSE run)

Landings(t, direction) ==
    Landed(t, IF before.direction = direction THEN visits ELSE <<>>)

\* the slot FindNext()
FindNextSlot ==
    /\ crashed = "no"
    /\ \E t \in {FindNext(Start)} :
          Commit(t) /\ visits' = Landings(t, "Direction_Down")
    /\ op' = "FindNext"
    /\ before' = Snapshot("Direction_Down")

\* the slot FindPrevious()
FindPreviousSlot ==
    /\ crashed = "no"
    /\ \E t \in {FindPrevious(Start)} :
          Commit(t) /\ visits' = Landings(t, "Direction_Up")
    /\ op' = "FindPrevious"
    /\ before' = Snapshot("Direction_Up")

\* the Find button, with or without the Ctrl key
FindClicked(ctrl) ==
    /\ crashed = "no"
    /\ \E t \in {ResetKeyModifiers(Find(SetKeyModifiers(Start, ctrl)))} :
          Commit(t) /\ visits' = Landings(t, GetSearchableDirection(Here))
    /\ op' = "Find"
    /\ before' = [Snapshot(GetSearchableDirection(Here)) EXCEPT !.ctrl = ctrl]

\* the Replace button
ReplaceClicked(ctrl) ==
    /\ crashed = "no"
    /\ \E t \in {ResetKeyModifiers(Replace(SetKeyModifiers(Start, ctrl)))} : Commit(t)
    /\ op' = "Replace"
    /\ before' = [Snapshot(GetSearchableDirection(Here)) EXCEPT !.ctrl = ctrl]
    /\ visits' = <<>>

\* the slot ReplaceCurrent()
ReplaceCurrentSlot ==
    /\ crashed = "no"
    /\ \E t \in {ReplaceCurrent(Start)} : Commit(t)
    /\ op' = "ReplaceCurrent"
    /\ before' = Snapshot(GetSearchableDirection(Here))
    /\ visits' = <<>>

\* the Replace All button
ReplaceAllClicked(ctrl) ==
    /\ crashed = "no"
    /\ \E t \in {ResetKeyModifiers(ReplaceAll(SetKeyModifiers(Start, ctrl)))} : Commit(t)
    /\ op' = "ReplaceAll"
    /\ before' = [Snapshot(GetSearchableDirection(Here)) EXCEPT !.ctrl = ctrl]
    /\ visits' = <<>>

\* the Count button
CountClicked(ctrl) ==
    /\ crashed = "no"
    /\ \E t \in {ResetKeyModifiers(Count(SetKeyModifiers(Start, ctrl)))} : Commit(t)
    /\ op' = "Count"
    /\ before' = [Snapshot(GetSearchableDirection(Here)) EXCEPT !.ctrl = ctrl]
    /\ visits' = <<>>

\* FindNext repeated under wrap, from any resource.  The open document has
\* up to MaxMatches matches, the others up to one.  The cursor starts at the
\* top of the open document; the calls themselves take it to every match of
\* every document, so that each later call starts from another position.
InitCycle ==
    InitWith({<<"a">>}, {"NL"}, CorpusScopes, {TRUE}, {"same"}, MaxMatches, 1,
             FALSE, FALSE, TRUE, {FALSE})

NextCycle == FindNextSlot

SpecCycle == InitCycle /\ [][NextCycle]_vars

\* finds in any order, with and without wrap, as a new search or not
InitFind ==
    InitWith({<<"a">>}, {"NL"}, CorpusScopes, BOOLEAN, {"same", "none"}, 1, 1,
             FALSE, FALSE, TRUE, {FALSE})

NextFind ==
    \/ FindNextSlot
    \/ FindPreviousSlot
    \/ FindClicked(FALSE)

SpecFind == InitFind /\ [][NextFind]_vars

\* finds and the traversal called on its own, under the scopes of the HTML
\* documents and of the NCX file, the Find button searching downwards, from
\* the first two HTML documents and from the first stylesheet
InitOpen ==
    /\ InitWith({<<"a">>}, {"NL"}, {"AH", "SH", "TH", "NX"}, BOOLEAN, {"same", "none"},
                1, 1, FALSE, FALSE, TRUE, {FALSE})
    /\ cbSearchDirection = "DN"
    /\ current \in {1, 2} \cup FirstOfType("CSSResourceType")

NextOpen ==
    \/ CallGetNextContainingResource("Direction_Down")
    \/ CallGetNextContainingResource("Direction_Up")
    \/ FindNextSlot
    \/ FindClicked(FALSE)

SpecOpen == InitOpen /\ [][NextOpen]_vars

\* finds after the find text, the replace text or a control has changed
InitReset ==
    InitWith({<<"a">>}, {"NL"}, CorpusScopes, {TRUE}, {"find", "replace", "controls"},
             1, 1, FALSE, FALSE, TRUE, {FALSE})

NextReset ==
    \/ FindNextSlot
    \/ FindPreviousSlot
    \/ FindClicked(FALSE)

SpecReset == InitReset /\ [][NextReset]_vars

\* every operation with an empty find text, under every scope, mode and
\* direction, with and without the Ctrl key
InitEmpty ==
    /\ InitWith({<<>>}, Range(MDS), Range(TGTS), BOOLEAN, {"same", "none"}, 1, 1,
                FALSE, TRUE, TRUE, {FALSE})
    /\ \A r \in Resources :
          r = current \/ Type(r) = ScopeType(cbLookWhere) => text[r] = <<"a">>

NextEmpty ==
    \/ FindNextSlot
    \/ FindPreviousSlot
    \/ ReplaceCurrentSlot
    \/ \E ctrl \in BOOLEAN : FindClicked(ctrl)
    \/ \E ctrl \in BOOLEAN : ReplaceClicked(ctrl)
    \/ \E ctrl \in BOOLEAN : CountClicked(ctrl)
    \/ \E ctrl \in BOOLEAN : ReplaceAllClicked(ctrl)

SpecEmpty == InitEmpty /\ [][NextEmpty]_vars

\* Count and Replace All, from any resource and cursor position, the open
\* document being of the scope or not: under wrap, and without
InitCountWrap ==
    InitWith({<<"a">>}, {"NL"}, CorpusScopes, {TRUE}, {"same", "none"},
             MaxMatches, 1, TRUE, TRUE, TRUE, {FALSE})

InitCountNoWrap ==
    InitWith({<<"a">>}, {"NL"}, CorpusScopes, {FALSE}, {"same", "none"},
             MaxMatches, 1, TRUE, TRUE, TRUE, {FALSE})

NextCount ==
    \/ CountClicked(FALSE)
    \/ ReplaceAllClicked(FALSE)

SpecCountWrap == InitCountWrap /\ [][NextCount]_vars

SpecCountNoWrap == InitCountNoWrap /\ [][NextCount]_vars

(* ------------------------ the Search Editor slots --------------------- *)
\* the saved searches the Search Editor can hand over: one that keeps the
\* controls and matches the documents that have text, and one that sets the
\* controls to case sensitive, wrap, Down, All HTML Files and matches nothing
MaxEntries == 3

SavedSearches ==
    {[find |-> <<"a">>, replace |-> <<"x">>, controls |-> <<>>],
     [find |-> <<"A">>, replace |-> <<"x">>, controls |-> Join(<<"CS", "WR", "DN", "AH">>)]}

SearchEditorGetCurrentEntries == UNION {[1..n -> SavedSearches] : n \in 0..MaxEntries}

\* the inputs of a batch: those of an operation and the entries
BatchSnapshot(search_entries) ==
    ("entries" :> search_entries) @@ Snapshot(GetSearchableDirection(Here))

FindSearchSlot(search_entries, ctrl) ==
    /\ crashed = "no" /\ op = "none"
    /\ \E t \in {FindSearch(Start, search_entries, ctrl)} : Commit(t)
    /\ op' = "FindSearch"
    /\ before' = [BatchSnapshot(search_entries) EXCEPT !.ctrl = ctrl]
    /\ visits' = <<>>

ReplaceSearchSlot(search_entries, ctrl) ==
    /\ crashed = "no" /\ op = "none"
    /\ \E t \in {ReplaceSearch(Start, search_entries, ctrl)} : Commit(t)
    /\ op' = "ReplaceSearch"
    /\ before' = [BatchSnapshot(search_entries) EXCEPT !.ctrl = ctrl]
    /\ visits' = <<>>

ReplaceCurrentSearchSlot(search_entries) ==
    /\ crashed = "no" /\ op = "none"
    /\ \E t \in {ReplaceCurrentSearch(Start, search_entries)} : Commit(t)
    /\ op' = "ReplaceCurrentSearch"
    /\ before' = BatchSnapshot(search_entries)
    /\ visits' = <<>>

CountAllSearchSlot(search_entries, ctrl) ==
    /\ crashed = "no" /\ op = "none"
    /\ \E t \in {CountAllSearch(Start, search_entries, ctrl)} : Commit(t)
    /\ op' = "CountAllSearch"
    /\ before' = [BatchSnapshot(search_entries) EXCEPT !.ctrl = ctrl]
    /\ visits' = <<>>

ReplaceAllSearchSlot(search_entries, ctrl) ==
    /\ crashed = "no" /\ op = "none"
    /\ \E t \in {ReplaceAllSearch(Start, search_entries, ctrl)} : Commit(t)
    /\ op' = "ReplaceAllSearch"
    /\ before' = [BatchSnapshot(search_entries) EXCEPT !.ctrl = ctrl]
    /\ visits' = <<>>

\* a batch of the Search Editor, run on the session as the user left it:
\* under All HTML Files or Selected HTML Files, direction Down, from any
\* resource
InitBatch ==
    /\ InitWith({<<"a">>}, {"NL"}, {"AH", "SH"}, {TRUE}, {"same"}, 1, 1,
                FALSE, FALSE, TRUE, {FALSE})
    /\ cbSearchDirection = "DN"

NextBatch ==
    \E search_entries \in SearchEditorGetCurrentEntries :
        \/ FindSearchSlot(search_entries, FALSE)
        \/ ReplaceSearchSlot(search_entries, FALSE)
        \/ ReplaceCurrentSearchSlot(search_entries)
        \/ CountAllSearchSlot(search_entries, FALSE)
        \/ ReplaceAllSearchSlot(search_entries, FALSE)

SpecBatch == InitBatch /\ [][NextBatch]_vars

(* -------------------------- the Regex Composer ------------------------ *)
\* The texts typed in the Find field: plain, with characters the literal
\* modes escape, with line separators, and with the (*UCP) directive at the
\* start or further on.
FindTexts ==
    {<<>>, <<"a">>, <<".">>, <<"a", "PS", "b">>, <<"\r", "\n">>,
     REGEX_OPTION_UCP, REGEX_OPTION_UCP \o <<"a">>, REGEX_OPTION_UCP \o <<".">>,
     REGEX_OPTION_IGNORE_CASE \o <<"a">>, <<"a">> \o REGEX_OPTION_UCP}

\* GetSearchRegex(), called in the current state; the log keeps its result
CallGetSearchRegex ==
    /\ crashed = "no"
    /\ \E t \in {Log(Start, "GetSearchRegex", NoResource, GetSearchRegex(Start))} :
          Commit(t)
    /\ op' = "GetSearchRegex"
    /\ before' = Snapshot("none")
    /\ UNCHANGED visits

InitRegex ==
    /\ InitWith(FindTexts, Range(MDS), {"CF"}, {TRUE}, {"same"}, 0, 0,
                FALSE, FALSE, TRUE, BOOLEAN)
    /\ cbSearchDirection = "DN"

NextRegex == CallGetSearchRegex

SpecRegex == InitRegex /\ [][NextRegex]_vars

(* ------------------------- saving and loading ------------------------- *)
\* the settings a saved search can carry
ControlSettings ==
    [cbSearchMode : Range(MDS), cbLookWhere : Range(TGTS),
     cbSearchDirection : Range(DRS), m_RegexOptionDotAll : BOOLEAN,
     m_RegexOptionMinimalMatch : BOOLEAN, m_RegexOptionAutoTokenise : BOOLEAN,
     m_OptionWrap : BOOLEAN]

\* the settings of the panel
PanelSettings ==
    [cbSearchMode |-> cbSearchMode, cbLookWhere |-> cbLookWhere,
     cbSearchDirection |-> cbSearchDirection,
     m_RegexOptionDotAll |-> m_RegexOptionDotAll,
     m_RegexOptionMinimalMatch |-> m_RegexOptionMinimalMatch,
     m_RegexOptionAutoTokenise |-> m_RegexOptionAutoTokenise,
     m_OptionWrap |-> m_OptionWrap]

\* SaveSearchAction: the entry handed to the Search Editor
SaveSearchAction(s) ==
    [find |-> s.cbFind, replace |-> s.cbReplace, controls |-> GetControls(s)]

\* LoadSearchByName of an entry that SaveSearchAction made with settings c
LoadSearchByName(c) ==
    /\ crashed = "no" /\ op = "none"
    /\ \E t \in {LoadSearch(Start, SaveSearchAction(c @@ Here), 0)} : Commit(t)
    /\ op' = "LoadSearchByName"
    /\ before' = [settings |-> c]
    /\ UNCHANGED visits

InitControls ==
    /\ InitWith({<<"a">>}, Range(MDS), {"CF", "NX"}, BOOLEAN, {"none"}, 0, 0,
                FALSE, FALSE, TRUE, BOOLEAN)
    /\ current = 1

NextControls == \E c \in ControlSettings : LoadSearchByName(c)

SpecControls == InitControls /\ [][NextControls]_vars

(* ----------------------- a tab with no Searchable --------------------- *)
\* the user brings a tab to the front whose content cannot be searched
OpenUnsearchableTab ==
    /\ crashed = "no" /\ op = "none" /\ current # UnsearchableTab
    /\ \E t \in {[Start EXCEPT !.current = UnsearchableTab,
                               !.anchor = 0, !.position = 0]} : Commit(t)
    /\ UNCHANGED <<op, before, visits>>

\* the operations on the open document (the Current File scope, or another
\* scope with the Ctrl key) and on the files of a scope, asked for while the
\* unsearchable tab is in front, with and without a Find text
InitNoTab ==
    InitWith({<<>>, <<"a">>}, {"NL"}, {"CF", "AH"}, BOOLEAN, {"same", "none"}, 1, 1,
             FALSE, TRUE, TRUE, {FALSE})

NextNoTab ==
    \/ OpenUnsearchableTab
    \/ /\ current = UnsearchableTab
       /\ \/ FindNextSlot
          \/ FindPreviousSlot
          \/ ReplaceCurrentSlot
          \/ \E ctrl \in BOOLEAN :
                \/ FindClicked(ctrl)
                \/ ReplaceClicked(ctrl)
                \/ ReplaceAllClicked(ctrl)
                \/ CountClicked(ctrl)

SpecNoTab == InitNoTab /\ [][NextNoTab]_vars

(* --------------------- a scope that lists no file --------------------- *)
\* the operations under a Selected scope with nothing selected or a Tabbed
\* scope with no tab of its type, as a new search or not
InitNoFiles ==
    /\ InitWith({<<"a">>}, {"NL"}, {"SH", "SC", "TH", "TC"}, BOOLEAN,
                {"same", "none"}, 1, 1, FALSE, TRUE, TRUE, {FALSE})
    /\ ScopeResources(Here) = <<>>

NextNoFiles ==
    \/ FindNextSlot
    \/ FindPreviousSlot
    \/ FindClicked(FALSE)
    \/ ReplaceClicked(FALSE)
    \/ ReplaceAllClicked(FALSE)
    \/ CountClicked(FALSE)

SpecNoFiles == InitNoFiles /\ [][NextNoFiles]_vars

(* ------------------------- find, then replace ------------------------- *)
\* finds and replacements in any order, on the open document or on the
\* files of a scope; a Find leaves a match selected
InitReplace ==
    InitWith({<<"a">>}, {"NL"}, {"CF", "AH"}, BOOLEAN, {"same"},
             1, 1, FALSE, FALSE, TRUE, {FALSE})

NextReplace ==
    \/ FindNextSlot
    \/ ReplaceCurrentSlot
    \/ ReplaceClicked(FALSE)

SpecReplace == InitReplace /\ [][NextReplace]_vars

(* ---------------------- the open document only ----------------------- *)
\* ShowHideMarkedText(marked): the editor tells the panel that a span of the
\* open document is marked, or no longer
ShowHideMarkedText(marked) ==
    /\ crashed = "no" /\ op = "none" /\ markedText # marked
    /\ \E t \in {[Start EXCEPT !.markedText = marked]} : Commit(t)
    /\ UNCHANGED <<op, before, visits>>

\* Find, Count and Replace All under the Current File scope and under corpus
\* scopes, with and without the Ctrl key and a marked span, as a new search
\* or not, from the first HTML document and from the first stylesheet
InitSameDoc ==
    /\ InitWith({<<"a">>}, {"NL"}, {"CF", "AH"}, BOOLEAN, {"same", "none"}, 1, 1,
                FALSE, TRUE, TRUE, {FALSE})
    /\ cbSearchDirection = "DN"
    /\ current \in FirstOfType("HTMLResourceType") \cup FirstOfType("CSSResourceType")

NextSameDoc ==
    \/ ShowHideMarkedText(TRUE)
    \/ \E ctrl \in BOOLEAN :
          \/ FindClicked(ctrl)
          \/ CountClicked(ctrl)
          \/ ReplaceAllClicked(ctrl)

SpecSameDoc == InitSameDoc /\ [][NextSameDoc]_vars

(* ---------------- the recorded signature ------------------------------ *)
\* Find, Replace, Count and Replace All, one after another, with an empty
\* and with a non-empty find text, under the Current File scope and a corpus
\* scope with wrap, with and without the Ctrl key, no signature or another
\* one recorded; the first two documents may have a match
InitRecord ==
    /\ InitWith({<<>>, <<"a">>}, {"NL"}, {"CF", "AH"}, {TRUE},
                {"none", "controls"}, 1, 1,
                FALSE, FALSE, TRUE, {FALSE})
    /\ cbSearchDirection = "DN"
    /\ current \in FirstOfType("HTMLResourceType")
    /\ \A r \in Resources : r > 2 => text[r] = <<>>

NextRecord ==
    \E ctrl \in BOOLEAN :
       \/ FindClicked(ctrl)
       \/ ReplaceClicked(ctrl)
       \/ CountClicked(ctrl)
       \/ ReplaceAllClicked(ctrl)

SpecRecord == InitRecord /\ [][NextRecord]_vars

(* ------------------------ the flags of a click ------------------------ *)
\* the slot FindNextInFile()
FindNextInFile ==
    /\ crashed = "no"
    /\ \E t \in {[FindText([Start EXCEPT !.m_LookWhereCurrentFile = TRUE],
                            "Direction_Down")
                      EXCEPT !.m_LookWhereCurrentFile = FALSE]} : Commit(t)
    /\ op' = "FindNextInFile"
    /\ before' = [Snapshot("Direction_Down") EXCEPT !.ctrl = TRUE]
    /\ visits' = <<>>

\* the slot ReplaceNextInFile()
ReplaceNextInFile ==
    /\ crashed = "no"
    /\ \E t \in {[ReplaceText([Start EXCEPT !.m_LookWhereCurrentFile = TRUE],
                               "Direction_Down", FALSE)
                      EXCEPT !.m_LookWhereCurrentFile = FALSE]} : Commit(t)
    /\ op' = "ReplaceNextInFile"
    /\ before' = [Snapshot("Direction_Down") EXCEPT !.ctrl = TRUE]
    /\ visits' = <<>>

\* the slot ReplaceAllInFile()
ReplaceAllInFile ==
    /\ crashed = "no"
    /\ \E t \in {[ReplaceAll([Start EXCEPT !.m_LookWhereCurrentFile = TRUE])
                      EXCEPT !.m_LookWhereCurrentFile = FALSE]} : Commit(t)
    /\ op' = "ReplaceAllInFile"
    /\ before' = [Snapshot(GetSearchableDirection(Here)) EXCEPT !.ctrl = TRUE]
    /\ visits' = <<>>

\* the slot CountInFile()
CountInFile ==
    /\ crashed = "no"
    /\ \E t \in {[Count([Start EXCEPT !.m_LookWhereCurrentFile = TRUE])
                      EXCEPT !.m_LookWhereCurrentFile = FALSE]} : Commit(t)
    /\ op' = "CountInFile"
    /\ before' = [Snapshot(GetSearchableDirection(Here)) EXCEPT !.ctrl = TRUE]
    /\ visits' = <<>>

\* the buttons, the in-file slots and the batches of the Search Editor, with
\* and without the Ctrl key, under the Current File scope and All HTML Files
\* with wrap, direction Down, from the first document; the first two
\* documents may have a match
InitFlags ==
    /\ InitWith({<<>>, <<"a">>}, {"NL"}, {"CF", "AH"}, {TRUE}, {"none"}, 1, 1,
                FALSE, FALSE, TRUE, {FALSE})
    /\ cbSearchDirection = "DN"
    /\ current \in FirstOfType("HTMLResourceType")
    /\ \A r \in Resources : r > 2 => text[r] = <<>>

NextFlags ==
    \/ FindNextInFile
    \/ ReplaceNextInFile
    \/ ReplaceAllInFile
    \/ CountInFile
    \/ \E ctrl \in BOOLEAN :
          \/ FindClicked(ctrl)
          \/ ReplaceClicked(ctrl)
          \/ CountClicked(ctrl)
          \/ ReplaceAllClicked(ctrl)
    \/ \E search_entries \in SearchEditorGetCurrentEntries :
          \/ ReplaceCurrentSearchSlot(search_entries)
          \/ \E ctrl \in BOOLEAN :
                \/ FindSearchSlot(search_entries, ctrl)
                \/ ReplaceSearchSlot(search_entries, ctrl)
                \/ CountAllSearchSlot(search_entries, ctrl)
                \/ ReplaceAllSearchSlot(search_entries, ctrl)

SpecFlags == InitFlags /\ [][NextFlags]_vars

(* ============================ properties ============================== *)
\* the document of resource r, as the operation found it, holds the letter a
\* (the find text of the specifications below) in either case
HadMatch(r) == \E i \in 1..Len(before.text[r]) : before.text[r][i] \in {"a", "A"}

\* the resources the log says were tested for containment, in test order
Tested == SelectSeq(calls, LAMBDA c : c.f = "Contains")

\* the k-th resource after the seed in the ordering the operation resolved,
\* going round the list in the direction of the traversal
StepFromSeed(k) ==
    LET n == Len(before.files)
        si == IndexOf(before.files, before.seed) - 1
    IN  IF before.direction = "Direction_Up"
        THEN before.files[((si + k * n - k) % n) + 1]
        ELSE before.files[((si + k) % n) + 1]

\* C2: GetNextContainingResource returns the first resource with a match met
\* when advancing from the seed one position at a time round the resolved
\* ordering (up to the seed itself when wrapping, short of it otherwise), and
\* nothing if there is none.  Orderings of one element without wrap are C5.
C2_FirstContainingInTraversalOrder ==
    (/\ op = "GetNextContainingResource"
     /\ before.files # <<>>
     /\ (Len(before.files) >= 2 \/ m_OptionWrap))
    => LET n == Len(before.files)
           last == IF m_OptionWrap THEN n ELSE n - 1
           hits == {k \in 1..last : HadMatch(StepFromSeed(k))}
       IN  IF hits = {} THEN containing = NoResource
           ELSE containing = StepFromSeed(CHOOSE k \in hits : \A j \in hits : k <= j)

\* C2 witness: three documents of which only the third matches, traversal
\* Down without wrap from the first: the second is skipped, the third returned
C2_Witness ==
    /\ op = "GetNextContainingResource"
    /\ ~m_OptionWrap /\ before.direction = "Direction_Down"
    /\ Len(before.files) = 3 /\ before.seed = before.files[1]
    /\ before.seed = before.current
    /\ ~HadMatch(before.files[2]) /\ HadMatch(before.files[3])
    /\ containing = before.files[3]

\* C3: without wrap and with the current resource in the scoped list,
\* GetFilesToSearch returns the part of the list from the current resource to
\* its end (direction Down) or from its start to the current resource (Up),
\* in the list's order
C3_TruncatedToCurrent ==
    (/\ op # "none" /\ ~m_OptionWrap /\ Contains(before.all, before.current))
    => LET f == before.files
           a == before.all
       IN  /\ f # <<>> /\ Len(f) <= Len(a)
           /\ IF cbSearchDirection = "DN"
              THEN /\ f[1] = before.current
                   /\ f[Len(f)] = a[Len(a)]
                   /\ \A i \in 1..Len(f) : f[i] = a[Len(a) - Len(f) + i]
              ELSE /\ f[Len(f)] = before.current
                   /\ f[1] = a[1]
                   /\ \A i \in 1..Len(f) : f[i] = a[i]

\* C3 witness: the current resource in the middle of a list of three, Down
C3_Witness ==
    /\ op # "none" /\ ~m_OptionWrap /\ cbSearchDirection = "DN"
    /\ Len(before.all) = 3 /\ before.all[2] = before.current
    /\ Len(before.files) = 2

\* C4: with wrap, or with the current resource outside the scoped list,
\* GetFilesToSearch returns the scoped list as it is, in either direction
C4_FullListWhenWrapOrAbsent ==
    (/\ op # "none" /\ (m_OptionWrap \/ ~Contains(before.all, before.current)))
    => before.files = before.all

\* C4 witness: wrap with the current resource in the middle of the list
C4_Witness ==
    /\ op # "none" /\ m_OptionWrap
    /\ Len(before.all) = 3 /\ before.all[2] = before.current
    /\ before.files = before.all

\* C5: on a resolved ordering of one element without wrap,
\* GetNextContainingResource returns the element only if it has a match and
\* is not the current file; when it is the current file it is not scanned
C5_SingleElementNoWrap ==
    (/\ op = "GetNextContainingResource"
     /\ Len(before.files) = 1 /\ ~m_OptionWrap)
    => /\ containing =
            IF HadMatch(before.files[1]) /\ before.files[1] # before.current
            THEN before.files[1] ELSE NoResource
       /\ Len(Tested) <= 1
       /\ before.files[1] = before.current => Tested = <<>>

\* C5 witness: the sole document of the scope, not the current one, matches
C5_Witness ==
    /\ op = "GetNextContainingResource"
    /\ Len(before.files) = 1 /\ ~m_OptionWrap
    /\ before.files[1] # before.current
    /\ containing = before.files[1]

\* C5 second case reached: the sole document is the current one and matches
C5_WitnessCurrent ==
    /\ op = "GetNextContainingResource"
    /\ Len(before.files) = 1 /\ ~m_OptionWrap
    /\ before.files[1] = before.current /\ HadMatch(before.current)
    /\ containing = NoResource

\* the resources of the scope whose documents hold a match
ScopeHits == {r \in Range(before.files) : HadMatch(r)}

\* C1: under wrap and a corpus scope, repeated FindNext calls land in every
\* resource of the scope that has a match once before landing in any of
\* them again: each call succeeds when the scope has a match, lands in a
\* resource with a match, and any ScopeHits consecutive landings differ
C1_CycleProperty ==
    (/\ op = "FindNext" /\ m_OptionWrap /\ cbLookWhere \in CorpusScopes)
    => /\ ScopeHits # {} => found
       /\ Range(visits) \subseteq ScopeHits
       /\ LET n == Min(Len(visits), Cardinality(ScopeHits))
              recent == {Len(visits) - n + k : k \in 1..n}
          IN  \A i, j \in recent : i # j => visits[i] # visits[j]

\* C1 witness: three resources with a match, one of them with two matches;
\* the finds went round all three and are back in the first
C1_Witness ==
    /\ op = "FindNext" /\ m_OptionWrap /\ cbLookWhere \in CorpusScopes
    /\ Cardinality(ScopeHits) = 3
    /\ \E r \in ScopeHits : Len(text[r]) >= 2
    /\ Len(visits) >= 4
    /\ visits[Len(visits)] = visits[Len(visits) - 3]

\* the resources the operation searched: by a containment test or by a find
\* in the open document
Searched == {calls[k].r : k \in {i \in 1..Len(calls) : calls[i].f \in {"Contains", "FindNext"}}}

\* C6: a corpus-wide Find that reports no match has searched every resource
\* of the resolved ordering that holds a match
C6_NotFoundOnlyWhenFullySearched ==
    (/\ op \in {"Find", "FindNext", "FindPrevious"}
     /\ crashed = "no" /\ ~before.ctrl /\ cbLookWhere \in CorpusScopes
     /\ cbFind # <<>> /\ ~found)
    => \A r \in Range(GetFilesToSearch(Here)) :
          (\E i \in 1..Len(text[r]) : text[r][i] \in {"a", "A"}) => r \in Searched

\* the calls of the log that went to f, in call order
LogOf(f) == SelectSeq(calls, LAMBDA c : c.f = f)

\* the signature of the search as the panel shows it
Signature == <<cbFind, cbReplace, GetControls(Here)>>

\* the resource a reset opens: the first of the scope's list for direction
\* Down, the last for direction Up
ResetTarget ==
    IF cbSearchDirection = "DN" THEN before.all[1] ELSE before.all[Len(before.all)]

\* C7: Find, FindNext and FindPrevious, invoked with a signature that differs
\* from the last one under a corpus scope with resources, first open the
\* first resource of the scope's list at offset 0 (direction Down) or the
\* last one at the end of its text (direction Up), and record the signature
C7_ResetOnChangedSignature ==
    (/\ op \in {"Find", "FindNext", "FindPrevious"}
     /\ before.new /\ ~before.ctrl
     /\ cbLookWhere \in CorpusScopes /\ before.all # <<>>)
    => /\ calls # <<>>
       /\ calls[1] = [f |-> "OpenResource", r |-> ResetTarget,
                      n |-> IF cbSearchDirection = "DN" THEN 0
                            ELSE Len(before.text[ResetTarget])]
       /\ m_PreviousSearch = Signature

\* the operations that return whether a match was found, and those that
\* return a number of matches
FindOps == {"Find", "FindNext", "FindPrevious", "Replace", "ReplaceCurrent"}

CountOps == {"Count", "ReplaceAll"}

\* C8: with an empty find text Find, FindNext, FindPrevious, Replace and
\* ReplaceCurrent return false, Count and ReplaceAll return 0, and none of
\* them calls a Searchable, a bulk pass or a containment test, or builds a
\* pattern, whatever the scope, the mode and the direction
C8_EmptyFindTextShortCircuits ==
    (cbFind = <<>> /\ op \in FindOps \cup CountOps)
    => /\ op \in FindOps => ~found
       /\ op \in CountOps => count = 0
       /\ \A k \in 1..Len(calls) :
             calls[k].f \notin {"FindNext", "Count", "ReplaceSelected", "ReplaceAll",
                                "CountInFiles", "ReplaceInAllFiles", "Contains",
                                "GetSearchRegex"}

\* C8 witness: Replace All was pressed with an empty find text in regex mode
\* under a corpus scope, on a new search (the reset opened a resource whose
\* document has text)
C8_Witness ==
    /\ cbFind = <<>> /\ op = "ReplaceAll" /\ cbSearchMode = "RX"
    /\ cbLookWhere \in CorpusScopes /\ ~before.ctrl /\ crashed = "no"
    /\ calls # <<>> /\ text[current] # <<>>

\* the number of matches the document of resource r had
Matches(r) ==
    Cardinality({i \in 1..Len(before.text[r]) : before.text[r][i] \in {"a", "A"}})

\* the resources and the sum of the counts of a sequence of log entries
Logged(q) == [k \in 1..Len(q) |-> q[k].r]

LoggedSum(q) == SeqSum([k \in 1..Len(q) |-> q[k].n])

\* C9: under wrap and a corpus scope, Count returns the sum of the matches of
\* the resources of the scope's whole list: the bulk pass takes each of them
\* once, in order, and the open document is not counted on its own
C9_CountWithWrapIsFullSum ==
    (/\ op = "Count" /\ m_OptionWrap /\ ~before.ctrl
     /\ cbLookWhere \in CorpusScopes)
    => /\ Logged(LogOf("CountInFiles")) = ScopeResources(Here)
       /\ LogOf("Count") = <<>>
       /\ count = SeqSum([k \in 1..Len(ScopeResources(Here)) |->
                            Matches(ScopeResources(Here)[k])])

\* C9 witness: the open document is of the scope and has two matches, the
\* cursor between them; other documents of the scope have matches too
C9_Witness ==
    /\ op = "Count" /\ m_OptionWrap /\ ~before.ctrl
    /\ cbLookWhere \in CorpusScopes
    /\ Contains(ScopeResources(Here), current)
    /\ Matches(current) = 2 /\ position = 1
    /\ count >= 4

\* the matches of the open document that lie in the direction of the search
\* from the cursor
DirectionalSlots ==
    {i \in 1..Len(before.text[current]) :
        /\ before.text[current][i] \in {"a", "A"}
        /\ IF cbSearchDirection = "UP" THEN i <= position ELSE i > position}

\* C10: without wrap, under a corpus scope, a Count or Replace All that
\* completes has passed in bulk over the truncated ordering less the current
\* resource, has counted the open document once, from the cursor in the
\* direction of the search, and returns the sum of the two; Replace All has
\* replaced exactly the matches it counted
C10_NoWrapSplit ==
    (/\ op \in CountOps /\ ~m_OptionWrap /\ ~before.ctrl
     /\ cbLookWhere \in CorpusScopes /\ crashed = "no")
    => LET bulk == LogOf(IF op = "Count" THEN "CountInFiles" ELSE "ReplaceInAllFiles")
           own == LogOf(IF op = "Count" THEN "Count" ELSE "ReplaceAll")
       IN  /\ Logged(bulk) = SelectSeq(GetFilesToSearch(Here), LAMBDA r : r # current)
           /\ \A k \in 1..Len(bulk) : bulk[k].n = Matches(bulk[k].r)
           /\ own = <<[f |-> IF op = "Count" THEN "Count" ELSE "ReplaceAll",
                       r |-> current, n |-> Cardinality(DirectionalSlots)]>>
           /\ count = LoggedSum(bulk) + LoggedSum(own)
           /\ \A r \in Resources : \A i \in 1..Len(text[r]) :
                 text[r][i] = IF /\ op = "ReplaceAll"
                                 /\ before.text[r][i] \in {"a", "A"}
                                 /\ \/ Contains(Logged(bulk), r)
                                    \/ r = current /\ i \in DirectionalSlots
                              THEN "x" ELSE before.text[r][i]

\* C10 witness: Count without wrap; the open document is of the scope and has
\* two matches, one of them past the cursor; the bulk pass found matches in
\* other documents
C10_Witness ==
    /\ op = "Count" /\ ~m_OptionWrap /\ ~before.ctrl /\ crashed = "no"
    /\ cbLookWhere \in CorpusScopes
    /\ Contains(GetFilesToSearch(Here), current)
    /\ Matches(current) = 2 /\ Cardinality(DirectionalSlots) = 1
    /\ LoggedSum(LogOf("CountInFiles")) >= 1
    /\ count = 1 + LoggedSum(LogOf("CountInFiles"))

\* the slots whose content the operation changed
Replaced == {<<r, i>> \in Resources \X (1..MaxMatches + 1) :
                i <= Len(text[r]) /\ text[r][i] # before.text[r][i]}

\* C11: Replace All under a corpus scope returns the number of replacements
\* it made, under wrap the number of matches of the whole list the scope
\* resolves to; the book is flagged modified and the tab told that its
\* content changed exactly once each when that number is positive, and not
\* at all when it is zero
C11_ReplaceAllNotifiesOnce ==
    (op = "ReplaceAll" /\ ~before.ctrl /\ cbLookWhere \in CorpusScopes)
    => /\ count = Cardinality(Replaced)
       /\ m_OptionWrap =>
             count = SeqSum([k \in 1..Len(ScopeResources(Here)) |->
                               Matches(ScopeResources(Here)[k])])
       /\ Len(LogOf("SetModified")) = (IF count > 0 THEN 1 ELSE 0)
       /\ Len(LogOf("ContentChangedExternally")) = (IF count > 0 THEN 1 ELSE 0)
       /\ \A k \in 1..Len(calls) :
             calls[k].f \in {"SetModified", "ContentChangedExternally"}
             => k >= Len(calls) - 1

\* C11 witness: Replace All under wrap made replacements in two documents or
\* more, three replacements or more in all
C11_Witness ==
    /\ op = "ReplaceAll" /\ ~before.ctrl /\ cbLookWhere \in CorpusScopes
    /\ m_OptionWrap /\ count >= 3
    /\ Cardinality({r \in Resources : \E i \in 1..Len(text[r]) : <<r, i>> \in Replaced}) >= 2
    /\ Len(LogOf("SetModified")) = 1

\* the entries of the batch that a call of the log went to, in call order
EntryLog(f) == [k \in 1..Len(LogOf(f)) |-> LogOf(f)[k].n]

UpTo(n) == [k \in 1..n |-> k]

\* the calls that load or record entries come in the order load 1, record 1,
\* load 2, record 2, ...
LoadsAndRecordsAlternate ==
    LET q == SelectSeq(calls, LAMBDA c : c.f \in {"LoadSearch", "RecordEntryAsCompleted"})
    IN  \A k \in 1..Len(q) :
           /\ q[k].f = (IF k % 2 = 1 THEN "LoadSearch" ELSE "RecordEntryAsCompleted")
           /\ q[k].n = (k + 1) \div 2

\* C12: FindSearch loads the entries in list order and stops at the first
\* whose Find succeeds; the entries before it, and only they, are recorded as
\* completed, each after its own Find; no later entry is loaded; when no Find
\* succeeds every entry is loaded and recorded
C12_FindSearchStopsAtFirstMatch ==
    (op = "FindSearch" /\ crashed = "no" /\ before.entries # <<>>)
    => /\ EntryLog("LoadSearch") = UpTo(Len(LogOf("LoadSearch")))
       /\ Len(LogOf("LoadSearch")) <= Len(before.entries)
       /\ LoadsAndRecordsAlternate
       /\ found =>
             /\ EntryLog("RecordEntryAsCompleted") = UpTo(Len(LogOf("LoadSearch")) - 1)
             /\ before.entries[Len(LogOf("LoadSearch"))].find = <<"a">>
             /\ anchor = position - 1 /\ text[current][position] = "a"
       /\ ~found =>
             /\ EntryLog("LoadSearch") = UpTo(Len(before.entries))
             /\ EntryLog("RecordEntryAsCompleted") = UpTo(Len(before.entries))

\* C12 witness: of three entries the first fails and the second matches: the
\* first is recorded, the third is not loaded
C12_Witness ==
    /\ op = "FindSearch" /\ crashed = "no" /\ Len(before.entries) = 3
    /\ found
    /\ EntryLog("LoadSearch") = <<1, 2>>
    /\ EntryLog("RecordEntryAsCompleted") = <<1>>

BatchOps ==
    {"FindSearch", "ReplaceSearch", "ReplaceCurrentSearch", "CountAllSearch",
     "ReplaceAllSearch"}

\* the operation of the last entry a batch loaded succeeded: a match was
\* found or replaced, or the count is positive
BatchSucceeded ==
    IF op \in {"CountAllSearch", "ReplaceAllSearch"} THEN count > 0 ELSE found

\* C13 as claimed: every batch operation, when it returns, has loaded the
\* entries in order up to the first whose operation succeeded and has
\* recorded as completed exactly the entries whose operation failed
C13_EveryBatchStopsAtFirstSuccess ==
    (op \in BatchOps /\ crashed = "no" /\ before.entries # <<>>)
    => /\ EntryLog("LoadSearch") = UpTo(Len(LogOf("LoadSearch")))
       /\ LoadsAndRecordsAlternate
       /\ IF BatchSucceeded
          THEN EntryLog("RecordEntryAsCompleted") = UpTo(Len(LogOf("LoadSearch")) - 1)
          ELSE /\ EntryLog("LoadSearch") = UpTo(Len(before.entries))
               /\ EntryLog("RecordEntryAsCompleted") = UpTo(Len(before.entries))

\* C13 amended: when they return, FindSearch and ReplaceSearch have loaded
\* the entries in order up to the first whose Find or Replace succeeded and
\* recorded exactly the entries before it (all of them when none succeeded);
\* ReplaceCurrentSearch has loaded the first entry only and recorded none;
\* CountAllSearch and ReplaceAllSearch have loaded every entry whatever the
\* counts, CountAllSearch recording none and ReplaceAllSearch every one
C13_BatchFamily ==
    (op \in BatchOps /\ crashed = "no" /\ before.entries # <<>>)
    => /\ op \in {"FindSearch", "ReplaceSearch"} =>
             /\ EntryLog("LoadSearch") = UpTo(Len(LogOf("LoadSearch")))
             /\ LoadsAndRecordsAlternate
             /\ IF found
                THEN EntryLog("RecordEntryAsCompleted")
                        = UpTo(Len(LogOf("LoadSearch")) - 1)
                ELSE /\ EntryLog("LoadSearch") = UpTo(Len(before.entries))
                     /\ EntryLog("RecordEntryAsCompleted") = UpTo(Len(before.entries))
       /\ op = "ReplaceCurrentSearch" =>
             /\ EntryLog("LoadSearch") = <<1>>
             /\ EntryLog("RecordEntryAsCompleted") = <<>>
       /\ op = "CountAllSearch" =>
             /\ EntryLog("LoadSearch") = UpTo(Len(before.entries))
             /\ EntryLog("RecordEntryAsCompleted") = <<>>
             /\ count = LoggedSum(LogOf("CountInFiles")) + LoggedSum(LogOf("Count"))
       /\ op = "ReplaceAllSearch" =>
             /\ EntryLog("LoadSearch") = UpTo(Len(before.entries))
             /\ EntryLog("RecordEntryAsCompleted") = UpTo(Len(before.entries))
             /\ LoadsAndRecordsAlternate
             /\ count = Cardinality(Replaced)

\* C13 witness: CountAllSearch of three entries, the first of which has
\* matches: all three are loaded, none is recorded
C13_Witness ==
    /\ op = "CountAllSearch" /\ crashed = "no" /\ Len(before.entries) = 3
    /\ before.entries[1].find = <<"a">> /\ count > 0
    /\ LogOf("CountInFiles") # <<>> /\ LogOf("CountInFiles")[1].n > 0
    /\ EntryLog("LoadSearch") = <<1, 2, 3>>
    /\ EntryLog("RecordEntryAsCompleted") = <<>>

\* C14: GetNextContainingResource returns (the loop does not outlast the
\* resolved ordering) after at most N containment tests without wrap and at
\* most N + 1 with wrap, N being the length of the resolved ordering, and it
\* tests no resource twice
C14_BoundedTraversal ==
    op = "GetNextContainingResource"
    => /\ crashed = "no"
       /\ Len(Tested) <= Len(before.files) + (IF m_OptionWrap THEN 1 ELSE 0)
       /\ \A j, k \in 1..Len(Tested) : Tested[j].r = Tested[k].r => j = k
       /\ \A k \in 1..Len(Tested) : Contains(before.files, Tested[k].r)

\* C14 witness: under wrap every resource of an ordering of three or more is
\* tested, the starting one last, and none has a match
C14_Witness ==
    /\ op = "GetNextContainingResource" /\ m_OptionWrap
    /\ Len(before.files) >= 3 /\ Len(Tested) = Len(before.files)
    /\ Tested[Len(Tested)].r = before.seed
    /\ containing = NoResource /\ crashed = "no"

\* C15: a Find under a corpus scope that opened the resource located by
\* GetNextContainingResource leaves the Book Browser's selection as it was
\* before the Find
C15_SelectionRestored ==
    (/\ op \in {"Find", "FindNext", "FindPrevious"} /\ ~before.ctrl
     /\ cbLookWhere \in CorpusScopes /\ crashed = "no"
     /\ containing # NoResource)
    => selected = before.selected

\* the pattern GetSearchRegex returned
ComposedPattern == calls[Len(calls)].n

\* the (?s) and (?U) directives of the regex mode, in the order they end up
RegexDirectives ==
    (IF m_RegexOptionMinimalMatch THEN REGEX_OPTION_MINIMAL_MATCH ELSE <<>>)
    \o (IF m_RegexOptionDotAll THEN REGEX_OPTION_DOT_ALL ELSE <<>>)

AfterUCP(ds, body) ==
    IF StartsWith(body, REGEX_OPTION_UCP)
    THEN REGEX_OPTION_UCP \o ds \o Mid(body, Len(REGEX_OPTION_UCP))
    ELSE ds \o body

\* C17: GetSearchRegex composes the pattern by mode: in Literal mode the
\* escaped text behind (?i); in LiteralCaseSensitive mode the escaped text
\* alone; in Regex mode the text unescaped behind (?s) iff dot-all is set and
\* (?U) iff minimal-match is set.  (?i) is added in Literal mode only and
\* the two flags change nothing in the literal modes.
C17_PatternByMode ==
    op = "GetSearchRegex"
    => LET raw == ReplaceNewlines(cbFind)
       IN  ComposedPattern =
              CASE cbSearchMode = "NL" -> REGEX_OPTION_IGNORE_CASE \o Escape(raw)
                [] cbSearchMode = "CS" -> Escape(raw)
                [] cbSearchMode = "RX" -> AfterUCP(RegexDirectives, raw)

C17_Witness ==
    /\ op = "GetSearchRegex" /\ cbSearchMode = "NL"
    /\ m_RegexOptionDotAll /\ m_RegexOptionMinimalMatch
    /\ cbFind = <<".">>
    /\ ComposedPattern = <<"(", "?", "i", ")", "\\", ".">>

\* C18: loading a search saved with any mode, flags, direction and scope sets
\* the panel to exactly these settings, whatever it showed before; and the
\* control string of the panel is the control string of no other settings.
C18_ControlsRoundTrip ==
    /\ op = "LoadSearchByName" => PanelSettings = before.settings
    /\ \A c \in ControlSettings :
          GetControls(c) = GetControls(PanelSettings) => c = PanelSettings

C18_Witness ==
    /\ op = "LoadSearchByName"
    /\ PanelSettings = [cbSearchMode |-> "CS", cbLookWhere |-> "SC",
                        cbSearchDirection |-> "UP", m_RegexOptionDotAll |-> FALSE,
                        m_RegexOptionMinimalMatch |-> TRUE,
                        m_RegexOptionAutoTokenise |-> FALSE, m_OptionWrap |-> FALSE]

\* the calls that change a document or tell the book it was modified
ChangingCalls ==
    {"ReplaceSelected", "ReplaceAll", "ReplaceInAllFiles", "SetModified",
     "ContentChangedExternally"}

\* C19: an operation on the open document, asked for with a Find text while
\* the tab in front has no Searchable, reports "This tab cannot be searched"
\* and returns false or 0: no fault, no replacement, no notification.
C19_NoSearchable ==
    (/\ op \in {"Find", "FindNext", "FindPrevious", "Replace", "ReplaceCurrent",
                "ReplaceAll", "Count"}
     /\ before.current = UnsearchableTab
     /\ \/ cbLookWhere = "CF"
        \/ before.ctrl
        \/ op \in {"Replace", "ReplaceCurrent"} /\ ~before.new
     /\ cbFind # <<>>)
    => /\ crashed = "no"
       /\ message # <<>> /\ message[1] = "This tab cannot be searched"
       /\ IF op \in {"ReplaceAll", "Count"} THEN count = 0 ELSE ~found
       /\ text = before.text /\ current = UnsearchableTab
       /\ \A i \in 1..Len(calls) : calls[i].f \notin ChangingCalls

C19_Witness ==
    /\ op = "ReplaceAll" /\ before.current = UnsearchableTab /\ cbLookWhere = "CF"
    /\ cbFind = <<"a">> /\ count = 0
    /\ message = <<"This tab cannot be searched">>
    /\ \E r \in Resources : text[r] # <<>>

\* C20: under a corpus scope whose list is empty, Find, Count, Replace and
\* Replace All complete with nothing found or counted, read no element of
\* the empty list and open no resource.
C20_EmptyScopeCompletes ==
    (/\ op \in {"Find", "Replace", "ReplaceAll", "Count"}
     /\ before.all = <<>> /\ ~before.ctrl)
    => /\ crashed = "no"
       /\ IF op \in {"ReplaceAll", "Count"} THEN count = 0 ELSE ~found
       /\ \A i \in 1..Len(calls) : calls[i].f # "OpenResource"

\* the places of the log where f was called
CallsOf(f) == {i \in 1..Len(calls) : calls[i].f = f}

\* the resource that was open when the i-th call was made
OpenAt(i) ==
    LET opened == {j \in CallsOf("OpenResource") : j < i}
    IN  IF opened = {} THEN before.current
        ELSE calls[CHOOSE j \in opened : \A k \in opened : k <= j].r

\* the selection is one match of the pattern in the open document
MatchSelected ==
    /\ Max(anchor, position) = Min(anchor, position) + 1
    /\ Max(anchor, position) \in MatchSlots(text[current], GetSearchRegex(Here))

\* C21: ReplaceText asks the open document once to replace its selection and
\* changes no other document; ReplaceCurrent then makes no Find and returns
\* whether the replacement was made; Replace chains a Find in its direction,
\* replacement or not, and returns what the Find returned.
C21_ReplaceText ==
    (op \in {"Replace", "ReplaceCurrent"} /\ crashed = "no")
    => /\ Cardinality(CallsOf("ReplaceSelected")) = 1
       /\ \A i \in CallsOf("ReplaceSelected") :
             /\ calls[i].r = OpenAt(i)
             /\ \A r \in Resources :
                   text[r] # before.text[r] => r = calls[i].r /\ calls[i].n = 1
             /\ calls[i].n = 1 => text[calls[i].r] # before.text[calls[i].r]
             /\ IF op = "ReplaceCurrent"
                THEN /\ CallsOf("FindNext") = {} /\ CallsOf("OpenResource") = {}
                     /\ found = (calls[i].n = 1)
                ELSE /\ found => MatchSelected
                     /\ ~found => message = <<"No matches found">>

C21_Witness ==
    /\ op = "Replace" /\ found /\ cbLookWhere = "AH" /\ ~before.new
    /\ \E i \in CallsOf("ReplaceSelected") : calls[i].n = 1 /\ calls[i].r # current

\* the seed the rule of C22 gives in the state the traversal began in
RuleSeed ==
    IF /\ Type(before.current) = ScopeType(cbLookWhere)
       /\ \/ cbLookWhere \notin {"SH", "TH", "SC", "TC", "OP", "NX"}
          \/ Contains(before.files, before.current)
    THEN before.current
    ELSE IF before.direction = "Direction_Up" THEN before.files[1]
         ELSE before.files[Len(before.files)]

\* the element after r (Down) or before r (Up) round the resolved ordering
NeighbourOf(r) ==
    LET n == Len(before.files)
        i == CHOOSE k \in 1..n : before.files[k] = r
    IN  IF before.direction = "Direction_Up"
        THEN before.files[IF i = 1 THEN n ELSE i - 1]
        ELSE before.files[IF i = n THEN 1 ELSE i + 1]

\* C22: the traversal of GetNextContainingResource is seeded at the current
\* resource iff its type is the scope's and the scope is an All scope or the
\* current resource is in the resolved ordering; else at the first element
\* (Up) or the last (Down).  The first resource tested is the seed's
\* neighbour in the direction: the other end when the seed is a boundary.
C22_TraversalSeed ==
    (op = "GetNextContainingResource" /\ before.files # <<>>)
    => /\ before.seed = RuleSeed
       /\ (RuleSeed = before.current) =
             (/\ Type(before.current) = ScopeType(cbLookWhere)
              /\ \/ cbLookWhere \in {"AH", "AC"}
                 \/ Contains(before.files, before.current))
       /\ (Len(before.files) >= 2 \/ m_OptionWrap)
          => /\ CallsOf("Contains") # {}
             /\ \A i \in CallsOf("Contains") :
                   (\A j \in CallsOf("Contains") : i <= j)
                   => calls[i].r = NeighbourOf(RuleSeed)

C22_Witness ==
    /\ op = "GetNextContainingResource" /\ cbLookWhere = "SH"
    /\ before.direction = "Direction_Down" /\ m_OptionWrap
    /\ Type(before.current) = "HTMLResourceType"
    /\ Len(before.files) >= 2 /\ ~Contains(before.files, before.current)
    /\ before.seed = before.files[Len(before.files)]
    /\ \E i \in CallsOf("Contains") : calls[i].r = before.files[1]

\* the resources tested for containment, in test order
TestedResources == [i \in 1..Len(Tested) |-> Tested[i].r]

\* C23: with wrap the seed is the last resource of the circular pass to be
\* tested, and it is returned when it alone has a match; without wrap, on an
\* ordering of two or more elements, the seed is neither tested nor returned.
C23_SeedTestedOnlyWithWrap ==
    (op = "GetNextContainingResource" /\ before.files # <<>>)
    => IF m_OptionWrap
       THEN /\ \A i \in 1..Len(TestedResources) :
                  TestedResources[i] = before.seed
                  => i = Len(TestedResources) /\ i = Len(before.files)
            /\ (\A r \in Range(before.files) : r # before.seed => ~HadMatch(r))
               => /\ Contains(TestedResources, before.seed)
                  /\ containing = (IF HadMatch(before.seed) THEN before.seed
                                   ELSE NoResource)
       ELSE Len(before.files) >= 2
            => /\ ~Contains(TestedResources, before.seed)
               /\ containing # before.seed

C23_Witness ==
    /\ op = "GetNextContainingResource" /\ m_OptionWrap
    /\ Len(before.files) = 3 /\ before.seed = before.files[2]
    /\ \A r \in Range(before.files) : HadMatch(r) = (r = before.seed)
    /\ containing = before.seed /\ Len(Tested) = 3

\* C24: under the Current File scope, with the Ctrl key or with a marked
\* span, Find, Count and Replace All work on the open document only: nothing
\* is opened (by the new-search reset either), no other resource is tested,
\* counted or changed, and the open resource stays the open resource.
C24_OpenDocumentOnly ==
    (/\ op \in {"Find", "Count", "ReplaceAll"}
     /\ cbLookWhere = "CF" \/ before.ctrl \/ before.marked)
    => /\ crashed = "no"
       /\ current = before.current
       /\ \A i \in 1..Len(calls) :
             /\ calls[i].f # "OpenResource"
             /\ calls[i].r \in {NoResource, before.current}
       /\ \A r \in Resources : r # before.current => text[r] = before.text[r]

C24_Witness ==
    /\ op = "ReplaceAll" /\ cbLookWhere = "AH" /\ before.marked /\ ~before.ctrl
    /\ before.new /\ count = 1
    /\ Type(current) = "CSSResourceType"
    /\ \E r \in HTMLs : text[r] = <<"a">>

\* C25: Find, Count, Replace or Replace All invoked with an empty find text
\* under a corpus scope leaves the open resource and the cursor as they were.
C25_EmptyTextTouchesNothing ==
    (/\ op \in {"Find", "Count", "Replace", "ReplaceAll"}
     /\ cbFind = <<>> /\ cbLookWhere \in CorpusScopes /\ ~before.ctrl
     /\ crashed = "no")
    => /\ current = before.current
       /\ anchor = before.anchor /\ position = before.position

\* C26: under a corpus scope, without the Ctrl key or a marked span, Count
\* counts no match and Replace All changes no document outside the list of
\* the scope.
C26_OnlyScopeMembers ==
    (/\ op \in {"Count", "ReplaceAll"}
     /\ cbLookWhere \in CorpusScopes /\ ~before.ctrl /\ ~before.marked
     /\ crashed = "no")
    => /\ \A i \in 1..Len(calls) :
             (/\ calls[i].f \in {"Count", "CountInFiles", "ReplaceAll",
                                 "ReplaceInAllFiles"}
              /\ calls[i].n > 0)
             => Contains(before.all, calls[i].r)
       /\ \A r \in Resources :
             text[r] # before.text[r] => Contains(before.all, r)

\* the resource a new search under a corpus scope starts in
BoundaryOfScope ==
    IF cbSearchDirection = "DN" THEN ScopeResources(Here)[1]
    ELSE ScopeResources(Here)[Len(ScopeResources(Here))]

\* C27: when a Find with the Ctrl key was the first with its signature, the
\* Find without the key that follows it, with the same find text, replace
\* text and controls, starts at the first resource of the scope at offset 0
\* (the last one at the end of its text for direction Up): it opens that
\* resource there first, unless the cursor is already there.
C27_FirstCorpusFindStartsAtBoundary ==
    [][(/\ op = "Find" /\ before.ctrl /\ before.new
        /\ cbLookWhere \in CorpusScopes /\ ~markedText
        /\ ScopeResources(Here) # <<>>
        /\ crashed = "no"
        /\ op' = "Find" /\ ~before'.ctrl)
       => LET edge == IF cbSearchDirection = "DN" THEN 0
                      ELSE Len(text[BoundaryOfScope])
          IN  \/ /\ calls' # <<>>
                 /\ calls'[1] = [f |-> "OpenResource", r |-> BoundaryOfScope, n |-> edge]
              \/ /\ current = BoundaryOfScope
                 /\ position = edge /\ anchor = edge]_vars

\* the operations that test for a new search
RecordingOps == {"Find", "Replace", "Count", "ReplaceAll"}

\* C28: when Find, Count, Replace or ReplaceAll has returned, with an empty
\* find text too, the recorded signature is the find text, the replace text
\* and the control string of the panel; and when one of them is invoked
\* after one of them has returned, the three unchanged, it is not a new
\* search and its first call is not the opening of a resource.
C28_SignatureRecorded ==
    [][/\ (op' \in RecordingOps /\ crashed' = "no")
          => m_PreviousSearch' = <<cbFind', cbReplace', GetControls(Here)'>>
       /\ (/\ op \in RecordingOps /\ crashed = "no"
           /\ op' \in RecordingOps /\ crashed' = "no"
           /\ <<cbFind', cbReplace', GetControls(Here)'>> = Signature)
          => /\ ~before'.new
             /\ m_PreviousSearch' = m_PreviousSearch
             /\ (calls' # <<>> => calls'[1].f # "OpenResource")]_vars

\* C28 witness: an operation that met an empty find text and a signature
\* other than the panel's has returned, and one invoked after it was not a
\* new search
C28_Witness ==
    /\ op = "Count" /\ crashed = "no"
    /\ cbFind = <<>>
    /\ ~before.new
    /\ m_PreviousSearch = Signature
    /\ calls = <<>>

\* the batches that stop at the first entry with a match
FirstMatchBatches == {"FindSearch", "ReplaceSearch"}

\* C29: once an entry point has returned, the Current File override and the
\* running-group flag are both off, whatever the path taken through it; and
\* the message LoadSearch showed for the entry that matched is still shown
\* when a batch of Find or Replace returns, the clearMessage calls of the
\* operation having left it alone.
C29_FlagsOffWhenIdle ==
    crashed = "no"
    => /\ ~m_LookWhereCurrentFile
       /\ ~m_IsSearchGroupRunning
       /\ (op \in FirstMatchBatches /\ found)
          => (message # <<>> /\ message[1] = "Loaded")

\* C29 witness: a batch of Find run with the Ctrl key held has found a match
\* with its second entry and returned
C29_Witness ==
    /\ op = "FindSearch" /\ crashed = "no"
    /\ before.ctrl /\ found
    /\ CallsOf("RecordEntryAsCompleted") # {}
    /\ ~m_LookWhereCurrentFile /\ ~m_IsSearchGroupRunning
    /\ message # <<>>

\* the containment test of resource r succeeded
TestedContaining(r) ==
    \E i \in CallsOf("Contains") : calls[i].r = r /\ calls[i].n = 1

\* C30: a resource GetNextContainingResource returns belongs to the list
\* GetFilesToSearch resolved for the call, passed the containment test and
\* has a match; and every resource a Find under a corpus scope opens belongs
\* to the list of the scope.
C30_ReturnedInScope ==
    /\ (op = "GetNextContainingResource" /\ containing # NoResource)
       => /\ Contains(before.files, containing)
          /\ TestedContaining(containing)
          /\ HadMatch(containing)
    /\ (op \in {"Find", "FindNext", "FindPrevious"} /\ crashed = "no")
       => /\ containing # NoResource
             => /\ Contains(before.all, containing)
                /\ TestedContaining(containing)
                /\ HadMatch(containing)
          /\ \A i \in CallsOf("OpenResource") : Contains(before.all, calls[i].r)

\* C30 witness: a Find that was no new search left the open document for
\* the resource the traversal returned, a member of the scope with a match
C30_Witness ==
    /\ op = "Find" /\ crashed = "no" /\ ~before.new
    /\ containing # NoResource /\ containing # before.current
    /\ Contains(before.all, containing)
    /\ CallsOf("OpenResource") # {}
    /\ current = containing /\ found

====
